---- MODULE Spec2Model ----
(***************************************************************************)
(* Model of examples/simple_secure_chat/main.cpp (MeshCore chat terminal): *)
(* the channel directory kept in NodePrefs.channels[], the runtime list    *)
(* active_channels[] built by initChannels(), and the shell commands that  *)
(* read or change them.                                                    *)
(*                                                                         *)
(* C strings are sequences of character codes (the bytes before the NUL).  *)
(***************************************************************************)
EXTENDS Integers, Sequences, FiniteSets, TLC

\* ------------------------------------------------------------- bounds ----

\* Number of shell commands dispatched in one behaviour.
MaxCmds == 4

\* ---------------------------------------------------- program constants --

\* platformio.ini build flag; main.cpp:50 gives 4 as the example value.
MAX_GROUP_CHANNELS == 4

\* sizeof(UserChannel::name), sizeof(UserChannel::key_hex)
NAME_SIZE == 32
KEY_HEX_SIZE == 64

\* #define PUBLIC_GROUP_PSK "izOH6cXN6mrJ5e26oRXNcg=="
PUBLIC_GROUP_PSK ==
  << 105, 122, 79, 72, 54, 99, 88, 78, 54, 109, 114, 74,
     53, 101, 50, 54, 111, 82, 88, 78, 99, 103, 61, 61 >>

StrPublic  == << 80, 117, 98, 108, 105, 99 >>      \* "Public"
StrPublicL == << 112, 117, 98, 108, 105, 99 >>     \* "public"
StrPubL    == << 112, 117, 98 >>                   \* "pub"

\* A char* that is nullptr (distinct from every string, the empty one too).
NullStr == << -1 >>

\* ------------------------------------------------------ string helpers ---

Take(s, n) == SubSeq(s, 1, IF Len(s) < n THEN Len(s) ELSE n)
Drop(s, n) == SubSeq(s, n + 1, Len(s))

Min(S) == CHOOSE x \in S : \A y \in S : x <= y

\* tolower() on one char, as strcasecmp applies it.
ToLower(c) == IF c >= 65 /\ c <= 90 THEN c + 32 ELSE c

\* strcasecmp(a, b) == 0
StrCaseEq(a, b) ==
  /\ Len(a) = Len(b)
  /\ \A k \in 1..Len(a) : ToLower(a[k]) = ToLower(b[k])

\* strncpy(dst, src, size - 1); dst[size - 1] = 0
StrNCpy(src, size) == Take(src, size - 1)

\* sscanf(params, "%31s", ch_name) on a first token
Scan31(tok) == Take(tok, 31)

\* sscanf(params, "%31s %64s", ch_name, hex_key): the second conversion starts
\* where the first stopped, so the tail of an over-long first token is read
\* as the key.
Scan64(tok1, tok2) ==
  IF Len(tok1) > 31 THEN Take(Drop(tok1, 31), 64) ELSE Take(tok2, 64)

\* ------------------------------------------------------- hex / base64 ----

\* mesh::Utils hexVal: 0 for a char outside the hex alphabet
HexVal(c) ==
  IF c >= 48 /\ c <= 57 THEN c - 48
  ELSE IF c >= 65 /\ c <= 70 THEN c - 65 + 10
  ELSE IF c >= 97 /\ c <= 102 THEN c - 97 + 10
  ELSE 0

\* mesh::Utils::isHexChar
IsHexChar(c) == c = 48 \/ HexVal(c) > 0

\* mesh::Utils::fromHex(dest, byte_len, src) with strlen(src) = 2 * byte_len
RECURSIVE FromHex(_)
FromHex(hex) ==
  IF Len(hex) < 2 THEN << >>
  ELSE << 16 * HexVal(hex[1]) + HexVal(hex[2]) >> \o FromHex(Drop(hex, 2))

B64Char(v) ==
  IF v < 26 THEN 65 + v
  ELSE IF v < 52 THEN 97 + (v - 26)
  ELSE IF v < 62 THEN 48 + (v - 52)
  ELSE IF v = 62 THEN 43 ELSE 47

B64Val(c) ==
  IF c >= 65 /\ c <= 90 THEN c - 65
  ELSE IF c >= 97 /\ c <= 122 THEN c - 97 + 26
  ELSE IF c >= 48 /\ c <= 57 THEN c - 48 + 52
  ELSE IF c = 43 THEN 62 ELSE 63

\* encode_base64(input, input_length, output): text of the encoding
RECURSIVE EncodeBase64(_)
EncodeBase64(b) ==
  IF Len(b) = 0 THEN << >>
  ELSE IF Len(b) = 1 THEN
    << B64Char(b[1] \div 4), B64Char((b[1] % 4) * 16), 61, 61 >>
  ELSE IF Len(b) = 2 THEN
    << B64Char(b[1] \div 4), B64Char((b[1] % 4) * 16 + b[2] \div 16),
       B64Char((b[2] % 16) * 4), 61 >>
  ELSE
    << B64Char(b[1] \div 4), B64Char((b[1] % 4) * 16 + b[2] \div 16),
       B64Char((b[2] % 16) * 4 + b[3] \div 64), B64Char(b[3] % 64) >>
    \o EncodeBase64(Drop(b, 3))

\* decode_base64(input, input_length, output): the decoded bytes
RECURSIVE DecodeBase64(_)
DecodeBase64(t) ==
  IF Len(t) < 4 THEN << >>
  ELSE
    LET v1 == B64Val(t[1])
        v2 == B64Val(t[2])
        v3 == B64Val(t[3])
        v4 == B64Val(t[4])
    IN  IF t[3] = 61 THEN << v1 * 4 + v2 \div 16 >>
        ELSE IF t[4] = 61 THEN
          << v1 * 4 + v2 \div 16, (v2 % 16) * 16 + v3 \div 4 >>
        ELSE
          << v1 * 4 + v2 \div 16, (v2 % 16) * 16 + v3 \div 4,
             (v3 % 4) * 64 + v4 >>
          \o DecodeBase64(Drop(t, 4))

\* hexToBase64(dest, hex_str, hex_len)
hexToBase64(hex_str, hex_len) ==
  EncodeBase64(FromHex(Take(hex_str, 2 * (hex_len \div 2))))

\* mesh::Utils::sha256(hash, 32, msg, len): a fixed deterministic function of
\* the message bytes giving 32 bytes (stand-in for the digest).
RECURSIVE WeightedSum(_, _)
WeightedSum(msg, k) ==
  IF Len(msg) = 0 THEN 0
  ELSE k * msg[1] + WeightedSum(Drop(msg, 1), k + 1)

Sha256(msg) ==
  [ k \in 1..32 |-> (WeightedSum(msg, 1) + 31 * k + Len(msg)) % 256 ]

\* ------------------------------------------------------------- state -----

VARIABLES
  running,          \* FALSE between board.reboot()/power-on and begin()
  fs_up,            \* the filesystem opens files (fixed per behaviour)
  prefs,            \* MyMesh::_prefs (NodePrefs)
  disk,             \* the /node_prefs file
  active_channels,  \* MyMesh::active_channels[]
  channel_muted,    \* MyMesh::channel_muted[]
  last,             \* what the last dispatched handler was given and did
  ncmds,            \* commands dispatched so far
  command,          \* MyMesh::command[] between two loop() calls (a C string)
  pending,          \* bytes received by the console and not yet read
  contacts,         \* the contact table of BaseChatMesh, most recent first
  curr_recipient,   \* MyMesh::curr_recipient: index into contacts, 0 = NULL
  shell,            \* what the last loop() call read and did
  nticks,           \* loop() calls that found input, so far
  routed,           \* the branch of handleCommand a submitted line took
  cfile,            \* the /contacts file
  ports,            \* MultiSerial::ports[].enabled of Console
  sinks,            \* the bytes each serial port has been given, in order
  clock,            \* the RTC's current time, a uint32_t
  expected_ack_crc, \* MyMesh::expected_ack_crc, a uint32_t
  sent_to           \* the contacts whose messages await an ACK, by ACK value

\* The console ports, the clock and the pending acknowledgement.
sidevars == << ports, sinks, clock, expected_ack_crc, sent_to >>

\* The variables of the command line.
linevars == << command, pending, contacts, curr_recipient, shell, nticks,
               routed, cfile >>

\* The variables of the command line and its collaborators.
shellvars == << linevars, sidevars >>

vars == << running, fs_up, prefs, disk, active_channels, channel_muted,
           last, ncmds, command, pending, contacts, curr_recipient, shell,
           nticks, routed, cfile, ports, sinks, clock, expected_ack_crc,
           sent_to >>

SlotIdx == 0 .. (MAX_GROUP_CHANNELS - 2)
ChanIdx == 0 .. (MAX_GROUP_CHANNELS - 1)

\* ChannelDetails* that is nullptr
NullChannel == [ name |-> << >>, secret |-> << >> ]

\* struct UserChannel after the constructor's reset
EmptySlot ==
  [ name |-> << >>, key_hex |-> << >>, muted |-> FALSE, active |-> FALSE ]

\* NodePrefs as the MyMesh constructor leaves it
\* (of the scalar settings: node_name "NONAME", tx_power_dbm LORA_TX_POWER)
DefaultPrefs ==
  [ node_name |-> << 78, 79, 78, 65, 77, 69 >>,
    tx_power_dbm |-> 20,
    mute_adverts |-> FALSE,
    channels |-> [ i \in SlotIdx |-> EmptySlot ],
    selected_channel_idx |-> 0,
    serial_enabled |-> [ i \in 0..2 |-> i = 0 ] ]

NoOutput ==
  [ cmd |-> "", result |-> "", requested |-> << >>, flooded |-> << >>,
    shown |-> NullStr, listing |-> << >>, wrote |-> 0 ]

\* loop() has not run yet: nothing read, nothing dispatched.
NoTick ==
  [ input |-> << >>, events |-> << >>, tabs |-> << >>, too_long |-> FALSE,
    max_len |-> 0, cut |-> FALSE, since |-> << >> ]

\* handleCommand has not been given a line.
NotRouted == [ line |-> << >>, handler |-> "", msg |-> "" ]

\* There is no /contacts file.
NoFile == [ exists |-> FALSE, data |-> << >> ]

\* MultiSerial::MultiSerial(): USB enabled, Serial1 and Serial2 disabled
PortsAtStart == [ i \in 0..2 |-> i = 0 ]

\* A uint32_t as its two 16-bit halves << high, low >>.
Zero32 == << 0, 0 >>

\* a > b on uint32_t
Gt32(a, b) == a[1] > b[1] \/ (a[1] = b[1] /\ a[2] > b[2])

\* a + 1 on uint32_t (0xFFFFFFFF + 1 = 0)
Inc32(a) ==
  IF a[2] < 65535 THEN << a[1], a[2] + 1 >>
  ELSE << (a[1] + 1) % 65536, 0 >>

\* n * 10 + d on uint32_t
Mul10Add32(n, d) ==
  LET low == n[2] * 10 + d
  IN  << (n[1] * 10 + low \div 65536) % 65536, low % 65536 >>

\* (int) n for a uint32_t n
AsInt(n) ==
  IF n[1] < 32768 THEN n[1] * 65536 + n[2]
  ELSE (n[1] - 65536) * 65536 + n[2]

\* MultiSerial::enablePort(idx)
enablePort(ps, idx) ==
  IF idx >= 0 /\ idx < 3 THEN [ ps EXCEPT ![idx] = TRUE ] ELSE ps

\* MultiSerial::disablePort(idx)
disablePort(ps, idx) ==
  IF idx > 0 /\ idx < 3 THEN [ ps EXCEPT ![idx] = FALSE ] ELSE ps

\* The console, the clock and the acknowledgement state at power-on: the
\* constructed console, nothing written, a clock at 0, the zero-initialised
\* expected_ack_crc of the static the_mesh, no message sent.
SideIdle ==
  /\ ports = PortsAtStart
  /\ sinks = [ i \in 0..2 |-> << >> ]
  /\ clock = Zero32
  /\ expected_ack_crc = 0
  /\ sent_to = {}

\* The command line and its collaborators right after the constructor:
\* command[0] = 0, curr_recipient = NULL, no contact, no input, no contacts
\* file.
ShellIdle ==
  /\ command = << >>
  /\ pending = << >>
  /\ contacts = << >>
  /\ curr_recipient = 0
  /\ shell = NoTick
  /\ nticks = 0
  /\ routed = NotRouted
  /\ cfile = NoFile
  /\ SideIdle

\* ------------------------------------------------ channel directory -----

\* BaseChatMesh::addChannel(name, psk_base64): a channel entry when the PSK
\* decodes to 16 or 32 bytes, nullptr otherwise.
addChannel(name, psk_base64) ==
  LET secret == DecodeBase64(psk_base64)
  IN  IF Len(secret) = 32 \/ Len(secret) = 16
      THEN [ name |-> StrNCpy(name, NAME_SIZE), secret |-> secret ]
      ELSE NullChannel

\* SlotChannel without the key-length test (any non-empty key is converted).
SlotChannel_AnyLength(slot) ==
  IF Len(slot.name) > 0 /\ slot.name[1] = 35 THEN
    addChannel(slot.name, EncodeBase64(Take(Sha256(slot.name), 16)))
  ELSE IF Len(slot.key_hex) > 0 THEN
    [ name |-> StrNCpy(slot.name, NAME_SIZE),
      secret |-> FromHex(slot.key_hex) ]
  ELSE NullChannel

\* The entry initChannels() obtains for one active slot (ch stays nullptr when
\* neither branch yields a key).
SlotChannel(slot) ==
  IF Len(slot.name) > 0 /\ slot.name[1] = 35 THEN
    addChannel(slot.name, EncodeBase64(Take(Sha256(slot.name), 16)))
  ELSE IF Len(slot.key_hex) > 0 THEN
    LET key_len == Len(slot.key_hex)
    IN  IF key_len = 32 \/ key_len = 64
        THEN addChannel(slot.name, hexToBase64(slot.key_hex, key_len))
        ELSE NullChannel
  ELSE NullChannel

\* The slot loop of initChannels(): i is the slot scanned, active_idx the next
\* free runtime index, rt the arrays built so far.
RECURSIVE InitChannelsLoop(_, _, _, _)
InitChannelsLoop(p, i, active_idx, rt) ==
  IF i > MAX_GROUP_CHANNELS - 2 THEN rt
  ELSE IF p.channels[i].active /\ active_idx < MAX_GROUP_CHANNELS THEN
    LET ch == SlotChannel(p.channels[i])
    IN  IF ch # NullChannel THEN
          InitChannelsLoop(p, i + 1, active_idx + 1,
            [ ac |-> [ rt.ac EXCEPT ![active_idx] = ch ],
              cm |-> [ rt.cm EXCEPT ![active_idx] = p.channels[i].muted ] ])
        ELSE InitChannelsLoop(p, i + 1, active_idx, rt)
  ELSE InitChannelsLoop(p, i + 1, active_idx, rt)

\* initChannels(): the arrays active_channels (ac) and channel_muted (cm)
initChannels(p) ==
  InitChannelsLoop(p, 0, 1,
    [ ac |-> [ i \in ChanIdx |->
                 IF i = 0 THEN addChannel(StrPublic, PUBLIC_GROUP_PSK)
                 ELSE NullChannel ],
      cm |-> [ i \in ChanIdx |-> FALSE ] ])

\* findChannelByName comparing the slot names byte for byte
findChannelByName_ExactSlotName(p, name) ==
  IF StrCaseEq(name, StrPublicL) \/ StrCaseEq(name, StrPubL) THEN 0
  ELSE
    LET found == { i \in SlotIdx :
                     p.channels[i].active /\ p.channels[i].name = name }
    IN  IF found = {} THEN -1
        ELSE 1 + Cardinality({ j \in SlotIdx :
                                 j < Min(found) /\ p.channels[j].active })

\* findChannelByName(name)
findChannelByName(p, name) ==
  IF StrCaseEq(name, StrPublicL) \/ StrCaseEq(name, StrPubL) THEN 0
  ELSE
    LET found == { i \in SlotIdx :
                     p.channels[i].active /\ StrCaseEq(p.channels[i].name, name) }
    IN  IF found = {} THEN -1
        ELSE 1 + Cardinality({ j \in SlotIdx :
                                 j < Min(found) /\ p.channels[j].active })

\* The name of the idx-th active slot of the preferences, nullptr if none
\* (the counting loop shared by getChannelName and getChannelNameFromPrefs).
NthActiveName(p, idx) ==
  LET hit == { i \in SlotIdx :
                 /\ p.channels[i].active
                 /\ Cardinality({ j \in SlotIdx :
                                    j <= i /\ p.channels[j].active }) = idx }
  IN  IF hit = {} THEN NullStr ELSE p.channels[Min(hit)].name

\* getChannelName(idx)
getChannelName(p, ac, idx) ==
  IF idx = 0 THEN StrPublic
  ELSE IF idx > 0 /\ idx < MAX_GROUP_CHANNELS /\ ac[idx] # NullChannel
       THEN NthActiveName(p, idx)
  ELSE NullStr

\* getChannelNameFromPrefs(idx)
getChannelNameFromPrefs(p, idx) ==
  IF idx = 0 THEN StrPublic
  ELSE IF idx > 0 /\ idx < MAX_GROUP_CHANNELS THEN NthActiveName(p, idx)
  ELSE NullStr

\* setUserChannel that reuses slot 0 when no slot is free.
setUserChannel_Overwrite(channels, name, key_hex) ==
  LET same == { i \in SlotIdx :
                  channels[i].active /\ StrCaseEq(channels[i].name, name) }
      free == { i \in SlotIdx : ~channels[i].active }
      slot == IF same # {} THEN Min(same)
              ELSE IF free # {} THEN Min(free) ELSE 0
  IN  [ ok |-> TRUE,
        channels |-> [ channels EXCEPT
          ![slot] = [ name |-> IF same # {} THEN channels[slot].name
                               ELSE StrNCpy(name, NAME_SIZE),
                      key_hex |-> StrNCpy(key_hex, KEY_HEX_SIZE),
                      active |-> TRUE,
                      muted |-> IF same # {} THEN channels[slot].muted
                                ELSE FALSE ] ] ]

\* setUserChannel(name, key_hex): the return value and the slots afterwards
setUserChannel(channels, name, key_hex) ==
  LET same == { i \in SlotIdx :
                  channels[i].active /\ StrCaseEq(channels[i].name, name) }
      free == { i \in SlotIdx : ~channels[i].active }
  IN  IF same # {} THEN
        [ ok |-> TRUE,
          channels |-> [ channels EXCEPT
            ![Min(same)].key_hex = StrNCpy(key_hex, KEY_HEX_SIZE) ] ]
      ELSE IF free # {} THEN
        [ ok |-> TRUE,
          channels |-> [ channels EXCEPT
            ![Min(free)] = [ name |-> StrNCpy(name, NAME_SIZE),
                             key_hex |-> StrNCpy(key_hex, KEY_HEX_SIZE),
                             active |-> TRUE,
                             muted |-> FALSE ] ] ]
      ELSE [ ok |-> FALSE, channels |-> channels ]

\* removeUserChannel comparing with strcmp (case-sensitive).
removeUserChannel_CaseSensitive(channels, name) ==
  LET same == { i \in SlotIdx : channels[i].active /\ channels[i].name = name }
  IN  IF same # {} THEN
        [ ok |-> TRUE,
          channels |-> [ channels EXCEPT ![Min(same)].active = FALSE ] ]
      ELSE [ ok |-> FALSE, channels |-> channels ]

\* removeUserChannel(name): the return value and the slots afterwards
removeUserChannel(channels, name) ==
  LET same == { i \in SlotIdx :
                  channels[i].active /\ StrCaseEq(channels[i].name, name) }
  IN  IF same # {} THEN
        [ ok |-> TRUE,
          channels |-> [ channels EXCEPT ![Min(same)].active = FALSE ] ]
      ELSE [ ok |-> FALSE, channels |-> channels ]

\* savePrefs() writing the record as it was before the command
savePrefs_OldRecord(p) ==
  IF fs_up THEN [ exists |-> TRUE, data |-> prefs ] ELSE disk

\* savePrefs(): the /node_prefs file after writing record p
savePrefs(p) ==
  IF fs_up THEN [ exists |-> TRUE, data |-> p ] ELSE disk

\* ------------------------------------------------------ input sets -----

RECURSIVE Rep(_, _)
Rep(s, n) == IF n = 0 THEN << >> ELSE s \o Rep(s, n - 1)

NameA     == << 97 >>                              \* "a"
NameAUp   == << 65 >>                              \* "A"
NameHashB == << 35, 98 >>                          \* "#b"
NameC     == << 99 >>                              \* "c"

\* "0123456789abcdefABCDEF0123456789": 32 hex characters
Key32 ==
  << 48, 49, 50, 51, 52, 53, 54, 55, 56, 57, 97, 98, 99, 100, 101, 102,
     65, 66, 67, 68, 69, 70, 48, 49, 50, 51, 52, 53, 54, 55, 56, 57 >>
\* 64 hex characters: Key32 followed by 16 times "e7"
Key64 == Key32 \o Rep(<< 101, 55 >>, 16)
\* 31 hex characters (wrong length)
Key31 == Take(Key32, 31)
\* 32 characters, the first one outside the hex alphabet ("g")
KeyNotHex == << 103 >> \o Take(Key32, 31)
\* 65 hex characters: Key64 followed by "9"
Key65 == Key64 \o << 57 >>

\* channel names typed after `set ch `, `del ch `, `chsel `, `mute ch `
NameArgs == { NameA, NameAUp, NameHashB, NameC, StrPublicL }
\* key tokens typed after `set ch <name> ` (<< >>: no key token)
KeyArgs == { << >>, Key32, Key64, Key31, KeyNotHex, Key65 }

\* ----------------------------------------------------------- startup -----

Init ==
  /\ running = FALSE
  /\ fs_up \in BOOLEAN
  /\ prefs = DefaultPrefs
  /\ disk = [ exists |-> FALSE, data |-> DefaultPrefs ]
  /\ active_channels = [ i \in ChanIdx |-> NullChannel ]
  /\ channel_muted = [ i \in ChanIdx |-> FALSE ]
  /\ last = NoOutput
  /\ ncmds = 0
  /\ ShellIdle

\* file.read((uint8_t *) &_prefs, sizeof(_prefs)) on a file holding data: the
\* fields the file holds (a short file holds the leading ones only) replace
\* those of p, the others stay.
ReadPrefs(p, data) ==
  [ node_name |-> data.node_name,
    tx_power_dbm |-> data.tx_power_dbm,
    mute_adverts |-> data.mute_adverts,
    channels |->
      [ i \in SlotIdx |->
          IF i \in DOMAIN data.channels THEN data.channels[i]
          ELSE p.channels[i] ],
    selected_channel_idx |->
      IF "selected_channel_idx" \in DOMAIN data THEN data.selected_channel_idx
      ELSE p.selected_channel_idx,
    serial_enabled |->
      IF "serial_enabled" \in DOMAIN data THEN data.serial_enabled
      ELSE p.serial_enabled ]

\* begin() assigning each saved flag to its port
ApplySerialConfig_Assign(ps, p) ==
  [ i \in 0..2 |-> p.serial_enabled[i] ]

\* The loop at the end of begin(): enablePort(i) for every saved flag that is
\* set, from port 0 to port 2.
ApplySerialConfig(ps, p) ==
  LET Step(q, i) == IF p.serial_enabled[i] THEN enablePort(q, i) ELSE q
  IN  Step(Step(Step(ps, 0), 1), 2)

\* MyMesh::begin(): load /node_prefs when it exists and opens, then
\* initChannels() and the saved serial port configuration.
Begin ==
  /\ ~running
  /\ LET loaded == IF fs_up /\ disk.exists THEN ReadPrefs(prefs, disk.data)
                   ELSE prefs
         rt == initChannels(loaded)
     IN  /\ prefs' = loaded
         /\ active_channels' = rt.ac
         /\ channel_muted' = rt.cm
         /\ ports' = ApplySerialConfig(ports, loaded)
  /\ running' = TRUE
  /\ last' = [ NoOutput EXCEPT !.cmd = "begin" ]
  /\ UNCHANGED << fs_up, disk, ncmds >>
  /\ UNCHANGED << linevars, sinks, clock, expected_ack_crc, sent_to >>

\* ---------------------------------------------------------- commands -----

Dispatch == running /\ ncmds < MaxCmds

\* The `ch` handler always taking the built-in entry.
SelectedChannel_First == active_channels[0]

\* active_channels[_prefs.selected_channel_idx] in the `ch` handler
SelectedChannel == active_channels[prefs.selected_channel_idx]

\* MAX_TEXT_LEN, defined in BaseChatMesh.h as 10 * CIPHER_BLOCK_SIZE
MAX_TEXT_LEN == 160

\* sizeof(temp) in the `ch` branch: uint8_t temp[5+MAX_TEXT_LEN+32]
TempSize == 5 + MAX_TEXT_LEN + 32

\* The bytes of temp the `ch` branch writes for a node name and a text: the
\* 4 timestamp bytes and the 0 after them, then what sprintf("%s: %s")
\* produces with its terminating 0 (temp[5 + MAX_TEXT_LEN] = 0 is inside the
\* array).
TempWritten(name, text) == 5 + Len(name) + 2 + Len(text) + 1

\* `ch <text>`; pkt_ok: createGroupDatagram returned a packet. A sprintf that
\* runs past the end of temp overwrites the stack: the handler then either
\* goes on as if nothing had happened or the node restarts.
CmdChLine(text, pkt_ok) ==
  /\ Dispatch
  /\ ncmds' = ncmds + 1
  /\ LET wrote == TempWritten(prefs.node_name, text)
     IN  IF prefs.selected_channel_idx < 0 THEN
           /\ last' = [ NoOutput EXCEPT !.cmd = "ch",
                                         !.result = "err_no_channel" ]
           /\ UNCHANGED << running, prefs, active_channels, channel_muted,
                           ports, expected_ack_crc, sent_to >>
         ELSE IF SelectedChannel = NullChannel THEN
           /\ last' = [ NoOutput EXCEPT !.cmd = "ch",
                                         !.result = "err_not_init" ]
           /\ UNCHANGED << running, prefs, active_channels, channel_muted,
                           ports, expected_ack_crc, sent_to >>
         ELSE
           \/ /\ last' =
                    IF pkt_ok THEN
                      [ NoOutput EXCEPT !.cmd = "ch", !.result = "sent",
                          !.requested = << SelectedChannel.secret >>,
                          !.flooded = << SelectedChannel.secret >>,
                          !.shown = getChannelName(prefs, active_channels,
                                                   prefs.selected_channel_idx),
                          !.wrote = wrote ]
                    ELSE
                      [ NoOutput EXCEPT !.cmd = "ch", !.result = "err_unable",
                          !.requested = << SelectedChannel.secret >>,
                          !.wrote = wrote ]
              /\ UNCHANGED << running, prefs, active_channels, channel_muted,
                              ports, expected_ack_crc, sent_to >>
           \/ /\ wrote > TempSize
              /\ last' = [ NoOutput EXCEPT !.cmd = "ch", !.result = "crashed",
                                            !.wrote = wrote ]
              /\ running' = FALSE
              /\ prefs' = DefaultPrefs
              /\ active_channels' = [ i \in ChanIdx |-> NullChannel ]
              /\ channel_muted' = [ i \in ChanIdx |-> FALSE ]
              /\ ports' = PortsAtStart
              /\ expected_ack_crc' = 0
              /\ sent_to' = {}
  /\ UNCHANGED << fs_up, disk, linevars, sinks, clock >>

\* `ch hi`
CmdCh(pkt_ok) == CmdChLine(<< 104, 105 >>, pkt_ok)

\* `chsel <name>`
CmdChsel(ch_name) ==
  /\ Dispatch
  /\ ncmds' = ncmds + 1
  /\ LET idx == findChannelByName(prefs, ch_name)
     IN  IF idx >= 0 THEN
           /\ prefs' = [ prefs EXCEPT !.selected_channel_idx = idx ]
           /\ disk' = savePrefs(prefs')
           /\ last' = [ NoOutput EXCEPT !.cmd = "chsel", !.result = "selected",
                          !.shown = getChannelName(prefs', active_channels, idx) ]
         ELSE
           /\ last' = [ NoOutput EXCEPT !.cmd = "chsel", !.result = "not_found" ]
           /\ UNCHANGED << prefs, disk >>
  /\ UNCHANGED << running, fs_up, active_channels, channel_muted >>
  /\ UNCHANGED shellvars

\* `set ch <name> <hex_key>` / `set ch #<name>`; tok1, tok2: the first two
\* whitespace-separated tokens of the parameters (tok2 empty: none typed)
CmdSetCh(tok1, tok2) ==
  /\ Dispatch
  /\ ncmds' = ncmds + 1
  /\ LET ch_name == Scan31(tok1)
         hex_key == Scan64(tok1, tok2)
         key_len == Len(hex_key)
         out == [ NoOutput EXCEPT !.cmd = "set ch" ]
     IN  IF tok1[1] = 35 THEN
           LET r == setUserChannel(prefs.channels, ch_name, << >>)
           IN  IF r.ok THEN
                 /\ prefs' = [ prefs EXCEPT !.channels = r.channels ]
                 /\ disk' = savePrefs(prefs')
                 /\ last' = [ out EXCEPT !.result = "added", !.shown = ch_name ]
               ELSE
                 /\ last' = [ out EXCEPT !.result = "full" ]
                 /\ UNCHANGED << prefs, disk >>
         ELSE IF Len(hex_key) > 0 THEN
           IF key_len = 32 \/ key_len = 64 THEN
             IF \A k \in 1..key_len : IsHexChar(hex_key[k]) THEN
               LET r == setUserChannel(prefs.channels, ch_name, hex_key)
               IN  IF r.ok THEN
                     /\ prefs' = [ prefs EXCEPT !.channels = r.channels ]
                     /\ disk' = savePrefs(prefs')
                     /\ last' = [ out EXCEPT !.result = "added",
                                    !.shown = ch_name ]
                   ELSE
                     /\ last' = [ out EXCEPT !.result = "full" ]
                     /\ UNCHANGED << prefs, disk >>
             ELSE
               /\ last' = [ out EXCEPT !.result = "err_invalid_hex" ]
               /\ UNCHANGED << prefs, disk >>
           ELSE
             /\ last' = [ out EXCEPT !.result = "err_key_length" ]
             /\ UNCHANGED << prefs, disk >>
         ELSE
           /\ last' = [ out EXCEPT !.result = "usage" ]
           /\ UNCHANGED << prefs, disk >>
  /\ UNCHANGED << running, fs_up, active_channels, channel_muted >>
  /\ UNCHANGED shellvars

\* `del ch <name>` that rebuilds the runtime list after a removal.
CmdDelCh_LiveRebuild(ch_name) ==
  /\ Dispatch
  /\ ncmds' = ncmds + 1
  /\ LET out == [ NoOutput EXCEPT !.cmd = "del ch" ]
     IN  IF StrCaseEq(ch_name, StrPublicL) THEN
           /\ last' = [ out EXCEPT !.result = "refused" ]
           /\ UNCHANGED << prefs, disk, active_channels, channel_muted >>
         ELSE
           LET r == removeUserChannel(prefs.channels, ch_name)
               removed == [ prefs EXCEPT !.channels = r.channels ]
           IN  IF r.ok THEN
                 /\ prefs' = removed
                 /\ disk' = savePrefs(prefs')
                 /\ active_channels' = initChannels(removed).ac
                 /\ channel_muted' = initChannels(removed).cm
                 /\ last' = [ out EXCEPT !.result = "removed",
                                !.shown = ch_name ]
               ELSE
                 /\ last' = [ out EXCEPT !.result = "not_found" ]
                 /\ UNCHANGED << prefs, disk, active_channels, channel_muted >>
  /\ UNCHANGED << running, fs_up >>
  /\ UNCHANGED shellvars

\* `del ch <name>`
CmdDelCh(ch_name) ==
  /\ Dispatch
  /\ ncmds' = ncmds + 1
  /\ LET out == [ NoOutput EXCEPT !.cmd = "del ch" ]
     IN  IF StrCaseEq(ch_name, StrPublicL) THEN
           /\ last' = [ out EXCEPT !.result = "refused" ]
           /\ UNCHANGED << prefs, disk >>
         ELSE
           LET r == removeUserChannel(prefs.channels, ch_name)
               removed == [ prefs EXCEPT !.channels = r.channels ]
               selected_name ==
                 getChannelNameFromPrefs(removed, removed.selected_channel_idx)
           IN  IF r.ok THEN
                 /\ prefs' =
                      IF selected_name # NullStr
                           /\ StrCaseEq(selected_name, ch_name)
                      THEN [ removed EXCEPT !.selected_channel_idx = 0 ]
                      ELSE removed
                 /\ disk' = savePrefs(prefs')
                 /\ last' = [ out EXCEPT !.result = "removed",
                                !.shown = ch_name ]
               ELSE
                 /\ last' = [ out EXCEPT !.result = "not_found" ]
                 /\ UNCHANGED << prefs, disk >>
  /\ UNCHANGED << running, fs_up, active_channels, channel_muted >>
  /\ UNCHANGED shellvars

\* The body shared by `mute ch <name>` (value TRUE) and `unmute ch <name>`
SetChannelMute(cmd, ch_name, value) ==
  /\ Dispatch
  /\ ncmds' = ncmds + 1
  /\ LET idx == findChannelByName(prefs, ch_name)
         out == [ NoOutput EXCEPT !.cmd = cmd ]
     IN  IF idx >= 0 THEN
           /\ channel_muted' = [ channel_muted EXCEPT ![idx] = value ]
           /\ prefs' = IF idx > 0
                       THEN [ prefs EXCEPT !.channels[idx - 1].muted = value ]
                       ELSE prefs
           /\ disk' = savePrefs(prefs')
           /\ last' = [ out EXCEPT !.result = "ok",
                          !.shown = getChannelName(prefs', active_channels, idx) ]
         ELSE
           /\ last' = [ out EXCEPT !.result = "not_found" ]
           /\ UNCHANGED << prefs, disk, channel_muted >>
  /\ UNCHANGED << running, fs_up, active_channels >>
  /\ UNCHANGED shellvars

\* `mute ch <name>`
CmdMuteCh(ch_name) == SetChannelMute("mute ch", ch_name, TRUE)

\* `unmute ch <name>`
CmdUnmuteCh(ch_name) == SetChannelMute("unmute ch", ch_name, FALSE)

\* `reboot`: board.reboot(), then static initialisation (Console, the_mesh)
\* and the MyMesh constructor; begin() follows as the next step. The RTC
\* keeps its time.
CmdReboot ==
  /\ Dispatch
  /\ ncmds' = ncmds + 1
  /\ running' = FALSE
  /\ prefs' = DefaultPrefs
  /\ active_channels' = [ i \in ChanIdx |-> NullChannel ]
  /\ channel_muted' = [ i \in ChanIdx |-> FALSE ]
  /\ last' = [ NoOutput EXCEPT !.cmd = "reboot" ]
  /\ ports' = PortsAtStart
  /\ expected_ack_crc' = 0
  /\ sent_to' = {}
  /\ UNCHANGED << fs_up, disk >>
  /\ UNCHANGED << linevars, sinks, clock >>

Next ==
  \/ Begin
  \/ \E pkt_ok \in BOOLEAN : CmdCh(pkt_ok)
  \/ \E n \in NameArgs : CmdChsel(n)
  \/ \E n \in NameArgs, k \in KeyArgs : CmdSetCh(n, k)
  \/ \E n \in NameArgs : CmdDelCh(n)
  \/ \E n \in NameArgs : CmdMuteCh(n)
  \/ \E n \in NameArgs : CmdUnmuteCh(n)
  \/ CmdReboot

Spec == Init /\ [][Next]_vars

\* ------------------------------------------------- within one boot ---

\* Channel slots at boot: "a", "c" and a free slot; a free slot, "c" and a
\* free slot; "a", "#b" and "c".
BootSlots ==
  LET a == [ name |-> NameA, key_hex |-> Key32, muted |-> FALSE,
             active |-> TRUE ]
      b == [ name |-> NameHashB, key_hex |-> << >>, muted |-> FALSE,
             active |-> TRUE ]
      c == [ name |-> NameC, key_hex |-> Key64, muted |-> FALSE,
             active |-> TRUE ]
  IN  { [ i \in SlotIdx |-> IF i = 0 THEN a ELSE IF i = 1 THEN c
                                        ELSE EmptySlot ],
        [ i \in SlotIdx |-> IF i = 1 THEN c ELSE EmptySlot ],
        [ i \in SlotIdx |-> IF i = 0 THEN a ELSE IF i = 1 THEN b ELSE c ] }

\* After begin() has loaded the slots and built the runtime list from them.
InitSelect ==
  /\ running = TRUE
  /\ fs_up = TRUE
  /\ \E ch \in BootSlots :
       /\ prefs = [ DefaultPrefs EXCEPT !.channels = ch ]
       /\ disk = [ exists |-> TRUE, data |-> prefs ]
       /\ active_channels = initChannels(prefs).ac
       /\ channel_muted = initChannels(prefs).cm
  /\ last = NoOutput
  /\ ncmds = 0
  /\ ShellIdle

\* The channel commands given between two starts.
NextSelect ==
  \/ \E pkt_ok \in BOOLEAN : CmdCh(pkt_ok)
  \/ \E n \in { NameA, NameHashB, NameC } : CmdChsel(n)
  \/ CmdSetCh(NameHashB, << >>)
  \/ \E n \in { NameA, NameHashB } : CmdDelCh(n)
  \/ \E n \in { NameA, NameC } : CmdMuteCh(n)
  \/ \E n \in { NameA, NameC } : CmdUnmuteCh(n)

SpecSelect == InitSelect /\ [][NextSelect]_vars

\* ------------------------------------------- startup from any record ---

\* Slot contents a persisted record can hold (strings NUL-terminated inside
\* their arrays): names "a" and "#b"; no key, a 32-character key, a
\* 63-character key, a 32-character key with a non-hex character.
AnySlots ==
  [ name : { NameA, NameHashB },
    key_hex : { << >>, Key32, StrNCpy(Key64, KEY_HEX_SIZE), KeyNotHex },
    muted : BOOLEAN,
    active : BOOLEAN ]

InitBoot ==
  /\ running = FALSE
  /\ fs_up = TRUE
  /\ prefs = DefaultPrefs
  /\ \E ch \in [ SlotIdx -> AnySlots ] :
       disk = [ exists |-> TRUE,
                data |-> [ DefaultPrefs EXCEPT !.channels = ch ] ]
  /\ active_channels = [ i \in ChanIdx |-> NullChannel ]
  /\ channel_muted = [ i \in ChanIdx |-> FALSE ]
  /\ last = NoOutput
  /\ ncmds = 0
  /\ ShellIdle

NextBoot == Begin

SpecBoot == InitBoot /\ [][NextBoot]_vars

\* ------------------------------------- startup from a short record ---

\* Slots a preferences file can hold.
FileSlots ==
  [ name : { NameA, NameC }, key_hex : { Key32 }, muted : BOOLEAN,
    active : BOOLEAN ]

\* Contents of /node_prefs: a whole record, or the leading part of one (the
\* scalar settings, here the name "n", power 10 and muted adverts), cut after
\* n channel slots (n = 0: before the first slot).
PrefsFiles ==
  { [ DefaultPrefs EXCEPT !.channels = ch, !.selected_channel_idx = sel ] :
      ch \in [ SlotIdx -> FileSlots ], sel \in { 0, 1 } }
  \cup { [ node_name |-> << 110 >>, tx_power_dbm |-> 10,
           mute_adverts |-> TRUE, channels |-> ch ] :
           ch \in UNION { [ 0..(n - 1) -> FileSlots ] : n \in 0..2 } }

\* Before begin(): the constructor's defaults, some /node_prefs file or none,
\* a filesystem that opens it or not.
InitLoad ==
  /\ running = FALSE
  /\ fs_up \in BOOLEAN
  /\ prefs = DefaultPrefs
  /\ \/ disk = [ exists |-> FALSE, data |-> DefaultPrefs ]
     \/ \E d \in PrefsFiles : disk = [ exists |-> TRUE, data |-> d ]
  /\ active_channels = [ i \in ChanIdx |-> NullChannel ]
  /\ channel_muted = [ i \in ChanIdx |-> FALSE ]
  /\ last = NoOutput
  /\ ncmds = 0
  /\ ShellIdle

NextLoad == Begin

SpecLoad == InitLoad /\ [][NextLoad]_vars

\* ------------------------------------------------ command dispatch -----

\* while (*command == ' ') command++;
RECURSIVE SkipSpaces(_)
SkipSpaces(s) == IF Len(s) > 0 /\ s[1] = 32 THEN SkipSpaces(Tail(s)) ELSE s

\* memcmp(command, lit, strlen(lit)) == 0: a command shorter than lit differs
\* from it at its terminating NUL at the latest.
MemEq(cmd, lit) == Len(cmd) >= Len(lit) /\ SubSeq(cmd, 1, Len(lit)) = lit

\* command[i], the terminating NUL at i = strlen(command)
CharAt(cmd, i) == IF i < Len(cmd) THEN cmd[i + 1] ELSE 0

\* The string literals handleCommand compares the line with.
Kw ==
  [ send |->
      << 115, 101, 110, 100, 32 >>,
    ch |->
      << 99, 104, 32 >>,
    chsel |->
      << 99, 104, 115, 101, 108, 32 >>,
    list |->
      << 108, 105, 115, 116 >>,
    clock |->
      << 99, 108, 111, 99, 107 >>,
    time |->
      << 116, 105, 109, 101, 32 >>,
    to_ |->
      << 116, 111, 32 >>,
    to |->
      << 116, 111 >>,
    advert |->
      << 97, 100, 118, 101, 114, 116 >>,
    reset_path |->
      << 114, 101, 115, 101, 116, 32, 112, 97, 116, 104 >>,
    card |->
      << 99, 97, 114, 100 >>,
    import |->
      << 105, 109, 112, 111, 114, 116, 32 >>,
    set_ch |->
      << 115, 101, 116, 32, 99, 104, 32 >>,
    set |->
      << 115, 101, 116, 32 >>,
    get |->
      << 103, 101, 116 >>,
    del_ch |->
      << 100, 101, 108, 32, 99, 104, 32 >>,
    ver |->
      << 118, 101, 114 >>,
    mute_ch |->
      << 109, 117, 116, 101, 32, 99, 104, 32 >>,
    unmute_ch |->
      << 117, 110, 109, 117, 116, 101, 32, 99, 104, 32 >>,
    mute |->
      << 109, 117, 116, 101 >>,
    unmute |->
      << 117, 110, 109, 117, 116, 101 >>,
    reboot |->
      << 114, 101, 98, 111, 111, 116 >>,
    serial |->
      << 115, 101, 114, 105, 97, 108, 32 >>,
    help |->
      << 104, 101, 108, 112 >> ]

\* The parameter names `get <param>` prints something for.
GetParams ==
  { << 110, 97, 109, 101 >>,
    << 108, 97, 116 >>,
    << 108, 111, 110 >>,
    << 102, 114, 101, 113 >>,
    << 116, 120 >>,
    << 115, 102 >>,
    << 99, 114 >>,
    << 98, 119 >>,
    << 97, 102 >>,
    << 99, 104 >> }

Advert == << 97, 100, 118, 101, 114, 116 >>      \* "advert"

\* handleCommand that tests `set ` before `set ch `.
Route_GenericFirst(line) ==
  LET cmd == SkipSpaces(line)
      H(h) == [ handler |-> h, msg |-> "handler" ]
      Q(h) == [ handler |-> h, msg |-> "none" ]
  IN  IF MemEq(cmd, Kw.send) THEN H("send")
      ELSE IF MemEq(cmd, Kw.ch) THEN H("ch")
      ELSE IF MemEq(cmd, Kw.chsel) THEN H("chsel")
      ELSE IF MemEq(cmd, Kw.list) THEN H("list")
      ELSE IF cmd = Kw.clock THEN H("clock")
      ELSE IF MemEq(cmd, Kw.time) THEN H("time")
      ELSE IF MemEq(cmd, Kw.to_) THEN H("to <name>")
      ELSE IF cmd = Kw.to THEN H("to")
      ELSE IF cmd = Kw.advert THEN H("advert")
      ELSE IF cmd = Kw.reset_path THEN H("reset path")
      ELSE IF MemEq(cmd, Kw.card) THEN H("card")
      ELSE IF MemEq(cmd, Kw.import) THEN H("import")
      ELSE IF MemEq(cmd, Kw.set) THEN H("set")
      ELSE IF MemEq(cmd, Kw.set_ch) THEN H("set ch")
      ELSE IF MemEq(cmd, Kw.get) THEN
        IF CharAt(cmd, 3) = 0 THEN H("get")
        ELSE IF CharAt(cmd, 3) = 32 THEN
          IF Len(cmd) = 4 \/ Drop(cmd, 4) \in GetParams
          THEN H("get") ELSE Q("get")
        ELSE Q("get")
      ELSE IF MemEq(cmd, Kw.del_ch) THEN H("del ch")
      ELSE IF MemEq(cmd, Kw.ver) THEN H("ver")
      ELSE IF MemEq(cmd, Kw.mute_ch) THEN H("mute ch")
      ELSE IF MemEq(cmd, Kw.unmute_ch) THEN H("unmute ch")
      ELSE IF MemEq(cmd, Kw.mute) THEN
        IF CharAt(cmd, 4) = 0 THEN H("mute")
        ELSE IF CharAt(cmd, 4) = 32 THEN
          [ handler |-> "mute",
            msg |-> IF Drop(cmd, 5) = Advert THEN "handler"
                    ELSE "unknown type" ]
        ELSE Q("mute")
      ELSE IF MemEq(cmd, Kw.unmute) THEN
        IF CharAt(cmd, 6) = 0 THEN H("unmute")
        ELSE IF CharAt(cmd, 6) = 32 THEN
          [ handler |-> "unmute",
            msg |-> IF Drop(cmd, 7) = Advert THEN "handler"
                    ELSE "unknown type" ]
        ELSE Q("unmute")
      ELSE IF MemEq(cmd, Kw.reboot) THEN H("reboot")
      ELSE IF MemEq(cmd, Kw.serial) THEN H("serial")
      ELSE IF MemEq(cmd, Kw.help) THEN H("help")
      ELSE [ handler |-> "unknown", msg |-> "unknown command" ]

\* handleCommand(command): the branch of the if / else-if chain the line takes
\* and the kind of console message it produces ("handler": the branch's own
\* output, "none": nothing is printed).
Route(line) ==
  LET cmd == SkipSpaces(line)
      H(h) == [ handler |-> h, msg |-> "handler" ]
      Q(h) == [ handler |-> h, msg |-> "none" ]
  IN  IF MemEq(cmd, Kw.send) THEN H("send")
      ELSE IF MemEq(cmd, Kw.ch) THEN H("ch")
      ELSE IF MemEq(cmd, Kw.chsel) THEN H("chsel")
      ELSE IF MemEq(cmd, Kw.list) THEN H("list")
      ELSE IF cmd = Kw.clock THEN H("clock")
      ELSE IF MemEq(cmd, Kw.time) THEN H("time")
      ELSE IF MemEq(cmd, Kw.to_) THEN H("to <name>")
      ELSE IF cmd = Kw.to THEN H("to")
      ELSE IF cmd = Kw.advert THEN H("advert")
      ELSE IF cmd = Kw.reset_path THEN H("reset path")
      ELSE IF MemEq(cmd, Kw.card) THEN H("card")
      ELSE IF MemEq(cmd, Kw.import) THEN H("import")
      ELSE IF MemEq(cmd, Kw.set_ch) THEN H("set ch")
      ELSE IF MemEq(cmd, Kw.set) THEN H("set")
      ELSE IF MemEq(cmd, Kw.get) THEN
        IF CharAt(cmd, 3) = 0 THEN H("get")
        ELSE IF CharAt(cmd, 3) = 32 THEN
          IF Len(cmd) = 4 \/ Drop(cmd, 4) \in GetParams
          THEN H("get") ELSE Q("get")
        ELSE Q("get")
      ELSE IF MemEq(cmd, Kw.del_ch) THEN H("del ch")
      ELSE IF MemEq(cmd, Kw.ver) THEN H("ver")
      ELSE IF MemEq(cmd, Kw.mute_ch) THEN H("mute ch")
      ELSE IF MemEq(cmd, Kw.unmute_ch) THEN H("unmute ch")
      ELSE IF MemEq(cmd, Kw.mute) THEN
        IF CharAt(cmd, 4) = 0 THEN H("mute")
        ELSE IF CharAt(cmd, 4) = 32 THEN
          [ handler |-> "mute",
            msg |-> IF Drop(cmd, 5) = Advert THEN "handler"
                    ELSE "unknown type" ]
        ELSE Q("mute")
      ELSE IF MemEq(cmd, Kw.unmute) THEN
        IF CharAt(cmd, 6) = 0 THEN H("unmute")
        ELSE IF CharAt(cmd, 6) = 32 THEN
          [ handler |-> "unmute",
            msg |-> IF Drop(cmd, 7) = Advert THEN "handler"
                    ELSE "unknown type" ]
        ELSE Q("unmute")
      ELSE IF MemEq(cmd, Kw.reboot) THEN H("reboot")
      ELSE IF MemEq(cmd, Kw.serial) THEN H("serial")
      ELSE IF MemEq(cmd, Kw.help) THEN H("help")
      ELSE [ handler |-> "unknown", msg |-> "unknown command" ]

\* ------------------------------------- dispatch of one submitted line ---

\* Lines submitted to handleCommand: an optional leading space, a first word
\* (the command words and "foo"), and a continuation.
RouteWords ==
  { << 115, 101, 110, 100 >>,
    << 99, 104 >>,
    << 99, 104, 115, 101, 108 >>,
    << 108, 105, 115, 116 >>,
    << 99, 108, 111, 99, 107 >>,
    << 116, 105, 109, 101 >>,
    << 116, 111 >>,
    << 97, 100, 118, 101, 114, 116 >>,
    << 114, 101, 115, 101, 116 >>,
    << 99, 97, 114, 100 >>,
    << 105, 109, 112, 111, 114, 116 >>,
    << 115, 101, 116 >>,
    << 103, 101, 116 >>,
    << 100, 101, 108 >>,
    << 118, 101, 114 >>,
    << 109, 117, 116, 101 >>,
    << 117, 110, 109, 117, 116, 101 >>,
    << 114, 101, 98, 111, 111, 116 >>,
    << 115, 101, 114, 105, 97, 108 >>,
    << 104, 101, 108, 112 >>,
    << 102, 111, 111 >> }

RouteTails ==
  { << >>,
    << 32 >>,
    << 120 >>,
    << 32, 120 >>,
    << 32, 99, 104, 32, 97 >>,
    << 32, 97, 100, 118, 101, 114, 116 >>,
    << 32, 112, 97, 116, 104 >> }

RouteLines ==
  { sp \o w \o t : sp \in { << >>, << 32 >> }, w \in RouteWords, t \in RouteTails }

InitRoute ==
  /\ running = TRUE
  /\ fs_up = TRUE
  /\ prefs = DefaultPrefs
  /\ disk = [ exists |-> FALSE, data |-> DefaultPrefs ]
  /\ active_channels = initChannels(DefaultPrefs).ac
  /\ channel_muted = initChannels(DefaultPrefs).cm
  /\ last = NoOutput
  /\ ncmds = 0
  /\ command = << >>
  /\ pending = << >>
  /\ contacts = << >>
  /\ curr_recipient = 0
  /\ shell = NoTick
  /\ nticks = 0
  /\ cfile = NoFile
  /\ SideIdle
  /\ \E l \in RouteLines : routed = [ NotRouted EXCEPT !.line = l ]

\* handleCommand is given the line and takes one branch of its chain.
RouteLine ==
  /\ routed.handler = ""
  /\ routed' = [ line |-> routed.line,
                 handler |-> Route(routed.line).handler,
                 msg |-> Route(routed.line).msg ]
  /\ UNCHANGED << running, fs_up, prefs, disk, active_channels, channel_muted,
                  last, ncmds, command, pending, contacts, curr_recipient,
                  shell, nticks, cfile >>
  /\ UNCHANGED sidevars

NextRoute == RouteLine

SpecRoute == InitRoute /\ [][NextRoute]_vars


\* -------------------------------------------------- command line -----

\* Number of loop() calls with input in one behaviour.
MaxTicks == 2

\* sizeof(MyMesh::command): char command[512+10]
COMMAND_SIZE == 522

\* The C string an array holds: its bytes before the first NUL.
CStr(a) ==
  LET z == { i \in 1..Len(a) : a[i] = 0 }
  IN  IF z = {} THEN a ELSE SubSeq(a, 1, Min(z) - 1)

\* The limit of the read loop taken as the whole array (no room left for the
\* terminating NUL).
ReadLimit_WholeArray == COMMAND_SIZE

\* while (Console.available() && len < sizeof(command)-1): the limit
ReadLimit == COMMAND_SIZE - 1

\* A byte the read loop appends (its final else branch): none of CR, LF, Tab,
\* Escape, backspace, delete.
Plain(c) == c \notin { 13, 10, 9, 27, 8, 127 }

\* The number of leading bytes of s that the loop appends one after another.
PlainRun(s) ==
  IF \A i \in 1..Len(s) : Plain(s[i]) THEN Len(s)
  ELSE Min({ i \in 1..Len(s) : ~Plain(s[i]) }) - 1

\* strncasecmp(name, prefix, strlen(prefix)) == 0
StrNCaseEq(name, prefix) ==
  /\ Len(name) >= Len(prefix)
  /\ \A j \in 1..Len(prefix) : ToLower(name[j]) = ToLower(prefix[j])

\* AutocompleteVisitor::onContactVisit: the name is taken as a match when no
\* character differs before the prefix or the name ends
ContactVisitMatches(name, prefix) ==
  /\ \A j \in 1..Len(prefix) :
       j <= Len(name) => ToLower(name[j]) = ToLower(prefix[j])
  /\ Len(name) > 0

\* scanRecentContacts(0, &autocomplete_visitor): matching_names[] after the
\* scan of every contact (each name cut to 31 characters)
RECURSIVE MatchingNames(_, _)
MatchingNames(cs, prefix) ==
  IF cs = << >> THEN << >>
  ELSE ( IF ContactVisitMatches(cs[1].name, prefix)
         THEN << Take(cs[1].name, 31) >> ELSE << >> )
       \o MatchingNames(Tail(cs), prefix)

\* matching_channels[] in handleTabCompletion: "Public", then the active slots
RECURSIVE MatchingSlots(_, _, _)
MatchingSlots(p, i, prefix) ==
  IF i > MAX_GROUP_CHANNELS - 2 THEN << >>
  ELSE ( IF p.channels[i].active
              /\ ( Len(prefix) = 0 \/ StrNCaseEq(p.channels[i].name, prefix) )
         THEN << p.channels[i].name >> ELSE << >> )
       \o MatchingSlots(p, i + 1, prefix)

\* The channel matches collected from the runtime list built at boot
\* instead of the slots.
MatchingChannels_FromRuntime(p, prefix) ==
  LET Names[i \in 0..MAX_GROUP_CHANNELS] ==
        IF i = MAX_GROUP_CHANNELS THEN << >>
        ELSE ( IF active_channels[i] # NullChannel
                    /\ ( Len(prefix) = 0
                         \/ StrNCaseEq(active_channels[i].name, prefix) )
               THEN << active_channels[i].name >> ELSE << >> )
             \o Names[i + 1]
  IN  Names[0]

MatchingChannels(p, prefix) ==
  ( IF Len(prefix) = 0 \/ StrNCaseEq(StrPublic, prefix)
    THEN << StrPublic >> ELSE << >> )
  \o MatchingSlots(p, 0, prefix)

\* handleTabCompletion(len) on the array contents buf (len = Len(buf)): the
\* contents afterwards, the context found ("to", "ch" or "none"), the partial
\* token, the names collected as matches, the names printed and whether the
\* bell was sent. (snprintf never
\* truncates: an offset of at most 10 and a name of at most 31 characters fit
\* the array.)
handleTabCompletion(buf, p, cs) ==
  LET len == Len(buf)
      quiet == [ buf |-> buf, ctx |-> "none", token |-> << >>,
                 matched |-> << >>, listed |-> << >>, bell |-> FALSE ]
      Complete(ctx, off, matches(_)) ==
        LET token == CStr(Drop(buf, off))
            m == matches(token)
        IN  IF Len(m) = 1 THEN
              [ buf |-> Take(buf, off) \o m[1], ctx |-> ctx, token |-> token,
                matched |-> m, listed |-> << >>, bell |-> FALSE ]
            ELSE IF Len(m) > 1 THEN
              [ buf |-> buf, ctx |-> ctx, token |-> token,
                matched |-> m, listed |-> m, bell |-> FALSE ]
            ELSE
              [ buf |-> buf, ctx |-> ctx, token |-> token,
                matched |-> m, listed |-> << >>, bell |-> TRUE ]
      ByContact(token) == MatchingNames(cs, token)
      ByChannel(token) == MatchingChannels(p, token)
  IN  IF len >= 3 /\ MemEq(buf, Kw.to_) THEN Complete("to", 3, ByContact)
      ELSE IF len >= 6 /\ MemEq(buf, Kw.chsel) THEN Complete("ch", 6, ByChannel)
      ELSE IF len >= 8 /\ MemEq(buf, Kw.mute_ch) THEN Complete("ch", 8, ByChannel)
      ELSE IF len >= 10 /\ MemEq(buf, Kw.unmute_ch)
        THEN Complete("ch", 10, ByChannel)
      ELSE IF len >= 7 /\ MemEq(buf, Kw.del_ch) THEN Complete("ch", 7, ByChannel)
      ELSE quiet

\* BaseChatMesh::searchContactsByPrefix(text): the first contact of the table
\* whose name has the prefix (case-insensitively), 0 when there is none.
searchContactsByPrefix(cs, text) ==
  LET hits == { i \in 1..Len(cs) : StrNCaseEq(cs[i].name, text) }
  IN  IF hits = {} THEN 0 ELSE Min(hits)

\* handleCommand(line) for the lines the console can submit here (`to <name>`,
\* `to`, `chsel <name>`, unknown commands): the shared state afterwards and
\* the kind of message printed. sh: _prefs, the /node_prefs file and
\* curr_recipient.
handleCommand(sh, cs, line) ==
  LET cmd == SkipSpaces(line)
      h == Route(line).handler
  IN  IF h = "to <name>" THEN
        LET found == searchContactsByPrefix(cs, Drop(cmd, 3))
        IN  [ sh |-> [ sh EXCEPT !.curr = found ],
              handler |-> h,
              result |-> IF found # 0 THEN "recipient" ELSE "err_not_found" ]
      ELSE IF h = "to" THEN
        [ sh |-> sh, handler |-> h,
          result |-> IF sh.curr # 0 THEN "current" ELSE "err_no_recipient" ]
      ELSE IF h = "chsel" THEN
        LET idx == findChannelByName(sh.prefs, Drop(cmd, 6))
            chosen == [ sh.prefs EXCEPT !.selected_channel_idx = idx ]
        IN  IF idx >= 0 THEN
              [ sh |-> [ sh EXCEPT
                         !.prefs = chosen,
                         !.disk = IF fs_up
                                  THEN [ exists |-> TRUE, data |-> chosen ]
                                  ELSE sh.disk ],
                handler |-> h, result |-> "selected" ]
            ELSE [ sh |-> sh, handler |-> h, result |-> "err_not_found" ]
      ELSE IF h = "unknown" THEN
        [ sh |-> sh, handler |-> h, result |-> "err_unknown" ]
      ELSE [ sh |-> sh, handler |-> h, result |-> "other" ]

\* The body of loop()'s while loop, from the state st of one call: buf is
\* command[0 .. len-1] (command[len] is NUL), rest the bytes still available.
\* A run of bytes of the final else branch is appended in one step, as far as
\* the loop's limit allows. cut: the line being typed lost its head to the
\* "command too long" error (until the next CR, LF or Escape); since: the
\* bytes read since the last CR, LF or "command too long" error.
RECURSIVE ReadLoop(_, _)
ReadLoop(st, cs) ==
  IF st.rest = << >> \/ ~( Len(st.buf) < ReadLimit ) THEN st
  ELSE
    LET c == st.rest[1]
        len == Len(st.buf)
    IN  IF c = 13 \/ c = 10 THEN
          IF len > 0 THEN
            LET r == handleCommand(st.sh, cs, CStr(st.buf))
            IN  ReadLoop([ st EXCEPT
                  !.rest = Tail(st.rest),
                  !.buf = << >>,
                  !.sh = r.sh,
                  !.cut = FALSE,
                  !.since = << >>,
                  !.events = Append(st.events,
                    [ typed |-> st.buf, fired |-> TRUE, line |-> CStr(st.buf),
                      handler |-> r.handler, result |-> r.result,
                      before |-> st.sh, after |-> r.sh, cut |-> st.cut ]) ], cs)
          ELSE
            ReadLoop([ st EXCEPT
              !.rest = Tail(st.rest),
              !.cut = FALSE,
              !.since = << >>,
              !.events = Append(st.events,
                [ typed |-> st.buf, fired |-> FALSE, line |-> << >>,
                  handler |-> "", result |-> "",
                  before |-> st.sh, after |-> st.sh, cut |-> st.cut ]) ], cs)
        ELSE IF c = 9 THEN
          LET t == handleTabCompletion(st.buf, st.sh.prefs, cs)
          IN  ReadLoop([ st EXCEPT
                !.rest = Tail(st.rest),
                !.buf = t.buf,
                !.since = Append(st.since, c),
                !.max_len = IF Len(t.buf) > st.max_len
                            THEN Len(t.buf) ELSE st.max_len,
                !.tabs = Append(st.tabs,
                  [ before |-> st.buf, after |-> t.buf, ctx |-> t.ctx,
                    token |-> t.token, matched |-> t.matched,
                    listed |-> t.listed,
                    bell |-> t.bell ]) ], cs)
        ELSE IF c = 27 THEN
          ReadLoop([ st EXCEPT !.rest = Tail(st.rest), !.buf = << >>,
                               !.cut = FALSE,
                               !.since = Append(st.since, c) ], cs)
        ELSE IF c = 8 \/ c = 127 THEN
          ReadLoop([ st EXCEPT
            !.rest = Tail(st.rest),
            !.buf = IF len > 0 THEN Take(st.buf, len - 1) ELSE st.buf,
            !.since = Append(st.since, c) ], cs)
        ELSE
          LET run == PlainRun(st.rest)
              n == IF run < ReadLimit - len THEN run ELSE ReadLimit - len
          IN  ReadLoop([ st EXCEPT
                !.rest = Drop(st.rest, n),
                !.buf = st.buf \o Take(st.rest, n),
                !.since = st.since \o Take(st.rest, n),
                !.max_len = IF len + n > st.max_len
                            THEN len + n ELSE st.max_len ], cs)

\* ------------------------------------------------- console sessions -----

Filler520 == [ i \in 1..520 |-> 120 ]                \* 520 times "x"
LongLine  == [ i \in 1..525 |-> 120 ] \o << 13 >>    \* 525 times "x", CR

\* The bytes that arrive between two loop() calls (<< >>: none).
Chunks ==
  { << >>,
    << 13 >>, << 13, 10 >>, << 9 >>, << 27 >>, << 8 >>, << 127 >>,
    << 0 >>, << 0, 120 >>, << 0, 13 >>,
    << 120 >>,                                       \* "x"
    << 97, 108 >>,                                   \* "al"
    << 116, 111, 32, 97, 108, 120 >>,                \* "to alx"
    << 116, 111, 32 >>,                                  \* "to ",
    << 99, 104, 115, 101, 108, 32 >>,                    \* "chsel ",
    << 116, 111, 32, 97, 108, 13, 116, 111, 32, 120, 10 >>,
                                           \* "to al" CR "to x" LF
    Filler520, LongLine }

\* Contact tables: one contact "al"; three contacts "alxy", "Alal" and "al".
ShellContacts ==
  { << [ name |-> << 97, 108 >> ] >>,
    << [ name |-> << 97, 108, 120, 121 >> ],
       [ name |-> << 65, 108, 97, 108 >> ],
       [ name |-> << 97, 108 >> ] >> }

\* Channel slots: none active; "al" and "alx" active with a 32-character key.
ShellSlots ==
  { [ i \in SlotIdx |-> EmptySlot ],
    [ i \in SlotIdx |->
        IF i = 0 THEN [ name |-> << 97, 108 >>, key_hex |-> Key32,
                        muted |-> FALSE, active |-> TRUE ]
        ELSE IF i = 1 THEN [ name |-> << 97, 108, 120 >>, key_hex |-> Key32,
                             muted |-> FALSE, active |-> TRUE ]
        ELSE EmptySlot ] }

\* After begin(): preferences loaded from the file, runtime list built, an
\* empty command line.
InitShell ==
  /\ running = TRUE
  /\ fs_up = TRUE
  /\ \E ch \in ShellSlots :
       /\ prefs = [ DefaultPrefs EXCEPT !.channels = ch ]
       /\ disk = [ exists |-> TRUE, data |-> prefs ]
       /\ active_channels = initChannels(prefs).ac
       /\ channel_muted = initChannels(prefs).cm
  /\ last = NoOutput
  /\ ncmds = 0
  /\ command = << >>
  /\ pending = << >>
  /\ contacts \in ShellContacts
  /\ curr_recipient = 0
  /\ shell = NoTick
  /\ nticks = 0
  /\ routed = NotRouted
  /\ cfile = NoFile
  /\ SideIdle

\* One loop() call that finds input: the bytes left unread by the last call
\* and the bytes that arrived since.
Loop(chunk) ==
  /\ running
  /\ nticks < MaxTicks
  /\ pending \o chunk # << >>
  /\ LET st == ReadLoop(
                 [ buf |-> command, rest |-> pending \o chunk,
                   sh |-> [ prefs |-> prefs, disk |-> disk,
                            curr |-> curr_recipient ],
                   events |-> << >>, tabs |-> << >>,
                   max_len |-> Len(command), cut |-> shell.cut,
                   since |-> shell.since ], contacts)
         full == Len(st.buf) >= COMMAND_SIZE - 1
     IN  /\ command' = IF full THEN << >> ELSE CStr(st.buf)
         /\ pending' = st.rest
         /\ prefs' = st.sh.prefs
         /\ disk' = st.sh.disk
         /\ curr_recipient' = st.sh.curr
         /\ shell' = [ input |-> pending \o chunk, events |-> st.events,
                       tabs |-> st.tabs, too_long |-> full,
                       max_len |-> st.max_len, cut |-> st.cut \/ full,
                       since |-> IF full THEN << >> ELSE st.since ]
  /\ nticks' = nticks + 1
  /\ UNCHANGED << running, fs_up, active_channels, channel_muted, last, ncmds,
                  contacts, routed, cfile >>
  /\ UNCHANGED sidevars

NextShell == \E chunk \in Chunks : Loop(chunk)

SpecShell == InitShell /\ [][NextShell]_vars

\* ------------------------------------- completion after set / del -----

\* Number of `set ch` / `del ch` commands between Tab completions in one
\* behaviour.
MaxEdits == 2

\* Command lines typed up to a Tab and then abandoned with Escape.
TabChunks ==
  { << 99, 104, 115, 101, 108, 32, 9, 27 >>,
                                                    \* "chsel " Tab Esc
    << 100, 101, 108, 32, 99, 104, 32, 97, 9, 27 >>,
                                                    \* "del ch a" Tab Esc
    << 109, 117, 116, 101, 32, 99, 104, 32, 35, 9, 27 >>,
                                                    \* "mute ch #" Tab Esc
    << 117, 110, 109, 117, 116, 101, 32, 99, 104, 32, 67, 9, 27 >> }
                                                    \* "unmute ch C" Tab Esc

\* Channel slots at boot: none active; "a" and "c" active.
TabSlots ==
  { [ i \in SlotIdx |-> EmptySlot ],
    [ i \in SlotIdx |->
        IF i = 0 THEN [ name |-> NameA, key_hex |-> Key32,
                        muted |-> FALSE, active |-> TRUE ]
        ELSE IF i = 1 THEN [ name |-> NameC, key_hex |-> Key32,
                             muted |-> FALSE, active |-> TRUE ]
        ELSE EmptySlot ] }

\* After begin(), no contact, an empty command line.
InitTab ==
  /\ running = TRUE
  /\ fs_up = TRUE
  /\ \E ch \in TabSlots :
       /\ prefs = [ DefaultPrefs EXCEPT !.channels = ch ]
       /\ disk = [ exists |-> TRUE, data |-> prefs ]
       /\ active_channels = initChannels(prefs).ac
       /\ channel_muted = initChannels(prefs).cm
  /\ last = NoOutput
  /\ ncmds = 0
  /\ ShellIdle

\* `set ch` and `del ch` lines submitted on an empty command line, and Tab
\* completions in between.
NextTab ==
  \/ \E n \in { NameA, NameHashB, NameC } :
       /\ command = << >>
       /\ ncmds < MaxEdits
       /\ CmdSetCh(n, IF n[1] = 35 THEN << >> ELSE Key32)
  \/ \E n \in { NameA, NameHashB, NameC } :
       /\ command = << >>
       /\ ncmds < MaxEdits
       /\ CmdDelCh(n)
  \/ \E chunk \in TabChunks : Loop(chunk)

SpecTab == InitTab /\ [][NextTab]_vars

\* --------------------------------------------------- settings commands --

StrAdvert == << 97, 100, 118, 101, 114, 116 >>   \* "advert"

\* Values typed after `set name `.
NodeNames == { << 110 >>, [ i \in 1..40 |-> 120 ] }   \* "n", 40 times "x"

\* Numbers typed after `set tx ` and `serial enable `: "5", "2", "300", "x".
NumberArgs == { << 53 >>, << 50 >>, << 51, 48, 48 >>, << 120 >> }

\* The value of the leading decimal digits of s (0 when there are none),
\* accumulated in a uint32_t from n on.
RECURSIVE DigitsValue(_, _)
DigitsValue(s, n) ==
  IF s # << >> /\ s[1] >= 48 /\ s[1] <= 57
  THEN DigitsValue(Tail(s), Mul10Add32(n, s[1] - 48))
  ELSE n

\* _atoi(sp), a uint32_t
_atoi(sp) == DigitsValue(sp, Zero32)

\* A handler that has assigned record p and then calls savePrefs().
StoreSetting(cmd, p) ==
  /\ prefs' = p
  /\ disk' = savePrefs(prefs')
  /\ last' = [ NoOutput EXCEPT !.cmd = cmd, !.result = "ok" ]

\* A handler that reports an error and assigns nothing.
RejectSetting(cmd) ==
  /\ last' = [ NoOutput EXCEPT !.cmd = cmd, !.result = "error" ]
  /\ UNCHANGED << prefs, disk >>

\* `set name <value>`
CmdSetName(value) ==
  /\ Dispatch
  /\ ncmds' = ncmds + 1
  /\ StoreSetting("set name",
                  [ prefs EXCEPT !.node_name = StrNCpy(value, NAME_SIZE) ])
  /\ UNCHANGED << running, fs_up, active_channels, channel_muted >>
  /\ UNCHANGED shellvars

\* `set tx <number>`: atoi() stored in a uint8_t
CmdSetTx(value) ==
  /\ Dispatch
  /\ ncmds' = ncmds + 1
  /\ StoreSetting("set tx",
                  [ prefs EXCEPT !.tx_power_dbm = DigitsValue(value, Zero32)[2] % 256 ])
  /\ UNCHANGED << running, fs_up, active_channels, channel_muted >>
  /\ UNCHANGED shellvars

\* `mute` and `mute <type>` (value TRUE), `unmute` and `unmute <type>`
SetAdvertMute(cmd, type, value) ==
  /\ Dispatch
  /\ ncmds' = ncmds + 1
  /\ IF type = StrAdvert
     THEN StoreSetting(cmd, [ prefs EXCEPT !.mute_adverts = value ])
     ELSE RejectSetting(cmd)
  /\ UNCHANGED << running, fs_up, active_channels, channel_muted >>
  /\ UNCHANGED shellvars

CmdMute(type) == SetAdvertMute("mute", type, TRUE)

CmdUnmute(type) == SetAdvertMute("unmute", type, FALSE)

\* `serial enable <N>`
CmdSerialEnable(arg) ==
  /\ Dispatch
  /\ ncmds' = ncmds + 1
  /\ LET port == AsInt(_atoi(arg))
     IN  IF port >= 0 /\ port < 3
         THEN /\ ports' = enablePort(ports, port)
              /\ StoreSetting("serial enable",
                              [ prefs EXCEPT !.serial_enabled[port] = TRUE ])
         ELSE /\ RejectSetting("serial enable")
              /\ UNCHANGED ports
  /\ UNCHANGED << running, fs_up, active_channels, channel_muted >>
  /\ UNCHANGED << linevars, sinks, clock, expected_ack_crc, sent_to >>

\* `serial disable <N>`
CmdSerialDisable(arg) ==
  /\ Dispatch
  /\ ncmds' = ncmds + 1
  /\ LET port == AsInt(_atoi(arg))
     IN  IF port >= 1 /\ port < 3
         THEN /\ ports' = disablePort(ports, port)
              /\ StoreSetting("serial disable",
                              [ prefs EXCEPT !.serial_enabled[port] = FALSE ])
         ELSE /\ RejectSetting("serial disable")
              /\ UNCHANGED ports
  /\ UNCHANGED << running, fs_up, active_channels, channel_muted >>
  /\ UNCHANGED << linevars, sinks, clock, expected_ack_crc, sent_to >>

\* The lines `get ch` prints for the slots from i on: one per active slot,
\* with the slot's number, name, selection mark and mute mark.
RECURSIVE ListSlots(_, _, _)
ListSlots(p, cm, i) ==
  IF i > MAX_GROUP_CHANNELS - 2 THEN << >>
  ELSE ( IF p.channels[i].active
         THEN << [ index |-> i + 1, name |-> p.channels[i].name,
                   selected |-> p.selected_channel_idx = i + 1,
                   muted |-> cm[i + 1] ] >>
         ELSE << >> ) \o ListSlots(p, cm, i + 1)

\* `get ch`: the Public line, then the slot lines
CmdGetCh ==
  /\ Dispatch
  /\ ncmds' = ncmds + 1
  /\ last' = [ NoOutput EXCEPT
                 !.cmd = "get ch", !.result = "ok",
                 !.listing =
                   << [ index |-> 0, name |-> StrPublic,
                        selected |-> prefs.selected_channel_idx = 0,
                        muted |-> channel_muted[0] ] >>
                   \o ListSlots(prefs, channel_muted, 0) ]
  /\ UNCHANGED << running, fs_up, prefs, disk, active_channels,
                  channel_muted >>
  /\ UNCHANGED shellvars

\* Before begin(): no /node_prefs file, a whole one (with usable keys, or with
\* a key of 31 characters in the first slot), or a short one.
InitPrefs ==
  /\ running = FALSE
  /\ fs_up \in BOOLEAN
  /\ prefs = DefaultPrefs
  /\ \/ disk = [ exists |-> FALSE, data |-> DefaultPrefs ]
     \/ \E ch \in TabSlots :
          disk = [ exists |-> TRUE,
                   data |-> [ DefaultPrefs EXCEPT !.channels = ch,
                                                  !.serial_enabled[2] = TRUE ] ]
     \/ disk = [ exists |-> TRUE,
                 data |-> [ DefaultPrefs EXCEPT
                              !.channels[0] =
                                [ name |-> NameA, key_hex |-> Key31,
                                  muted |-> FALSE, active |-> TRUE ] ] ]
     \/ disk = [ exists |-> TRUE,
                 data |-> [ node_name |-> << 110 >>, tx_power_dbm |-> 10,
                            mute_adverts |-> TRUE,
                            channels |->
                              [ i \in 0..0 |->
                                  [ name |-> NameA, key_hex |-> Key32,
                                    muted |-> TRUE, active |-> TRUE ] ] ] ]
  /\ active_channels = [ i \in ChanIdx |-> NullChannel ]
  /\ channel_muted = [ i \in ChanIdx |-> FALSE ]
  /\ last = NoOutput
  /\ ncmds = 0
  /\ ShellIdle

\* Every command that assigns a field of the preferences, `get ch`, and
\* reboots.
NextPrefs ==
  \/ Begin
  \/ /\ ncmds < MaxEdits
     /\ \/ \E n \in { NameA, NameHashB, StrPublicL } : CmdChsel(n)
        \/ \E n \in { NameAUp, NameHashB } :
             CmdSetCh(n, IF n[1] = 35 THEN << >> ELSE Key64)
        \/ \E n \in { NameA, NameC } : CmdDelCh(n)
        \/ \E n \in { NameA, StrPublicL } : CmdMuteCh(n)
        \/ \E n \in { NameA, StrPublicL } : CmdUnmuteCh(n)
        \/ \E v \in NodeNames : CmdSetName(v)
        \/ \E v \in NumberArgs : CmdSetTx(v)
        \/ \E t \in { StrAdvert, NameA } : CmdMute(t)
        \/ \E t \in { StrAdvert, NameA } : CmdUnmute(t)
        \/ \E a \in NumberArgs : CmdSerialEnable(a)
        \/ \E a \in NumberArgs : CmdSerialDisable(a)
        \/ CmdGetCh
  \/ CmdReboot

SpecPrefs == InitPrefs /\ [][NextPrefs]_vars

\* ------------------------------------------------------ serial console --

MaxWrites == 2

\* MultiSerial::write(c) that writes to every enabled port
WriteAll_IgnoresSpace(ps, sk, c, free) ==
  [ i \in 0..2 |-> IF ps[i] THEN Append(sk[i], c) ELSE sk[i] ]

\* The loop of MultiSerial::write(c); free[i]: availableForWrite() > 0 on
\* port i.
WriteAll(ps, sk, c, free) ==
  [ i \in 0..2 |->
      IF ps[i] /\ (i = 0 \/ free[i]) THEN Append(sk[i], c) ELSE sk[i] ]

\* Console.write(c), which returns 1
Write(c, free) ==
  /\ Len(sinks[0]) < MaxWrites
  /\ sinks' = WriteAll(ports, sinks, c, free)
  /\ last' = [ NoOutput EXCEPT !.cmd = "write", !.result = "1",
                                !.requested = << c >> ]
  /\ UNCHANGED << running, fs_up, prefs, disk, active_channels, channel_muted,
                  ncmds, linevars, ports, clock, expected_ack_crc, sent_to >>

\* Port numbers typed after `serial enable ` and `serial disable `: "0", "1",
\* "2", "3", "4294967295" (-1 as an int), "4294967297" (1 after the wrap).
PortArgs ==
  { << 48 >>, << 49 >>, << 50 >>, << 51 >>,
    << 52, 50, 57, 52, 57, 54, 55, 50, 57, 53 >>,
    << 52, 50, 57, 52, 57, 54, 55, 50, 57, 55 >> }

\* Before begin(): no /node_prefs file, or one with any serial flags.
InitSerial ==
  /\ running = FALSE
  /\ fs_up = TRUE
  /\ prefs = DefaultPrefs
  /\ \/ disk = [ exists |-> FALSE, data |-> DefaultPrefs ]
     \/ \E flags \in [ 0..2 -> BOOLEAN ] :
          disk = [ exists |-> TRUE,
                   data |-> [ DefaultPrefs EXCEPT !.serial_enabled = flags ] ]
  /\ active_channels = [ i \in ChanIdx |-> NullChannel ]
  /\ channel_muted = [ i \in ChanIdx |-> FALSE ]
  /\ last = NoOutput
  /\ ncmds = 0
  /\ ShellIdle

\* Startup, the serial commands, reboots, and bytes printed at any time with
\* any free space on Serial1 and Serial2.
NextSerial ==
  \/ Begin
  \/ /\ ncmds < MaxEdits
     /\ \/ \E a \in PortArgs : CmdSerialEnable(a)
        \/ \E a \in PortArgs : CmdSerialDisable(a)
        \/ CmdReboot
  \/ \E c \in { 65, 66 }, free \in [ 1..2 -> BOOLEAN ] : Write(c, free)

SpecSerial == InitSerial /\ [][NextSerial]_vars

\* ------------------------------------------------------ channel texts --

\* Texts typed after `ch `: "hi", and 183, 184 and 517 times "x" (517: the
\* longest the command buffer leaves after "ch ").
ChTexts ==
  { << 104, 105 >>,
    [ i \in 1..183 |-> 120 ],
    [ i \in 1..184 |-> 120 ],
    [ i \in 1..(COMMAND_SIZE - 2 - 3) |-> 120 ] }

\* After begin() with no preferences file: the Public channel selected.
InitChat ==
  /\ running = TRUE
  /\ fs_up = TRUE
  /\ prefs = DefaultPrefs
  /\ disk = [ exists |-> FALSE, data |-> DefaultPrefs ]
  /\ active_channels = initChannels(prefs).ac
  /\ channel_muted = initChannels(prefs).cm
  /\ last = NoOutput
  /\ ncmds = 0
  /\ ShellIdle

\* `ch` with short and long texts, under short and long node names.
NextChat ==
  \/ Begin
  \/ \E text \in ChTexts, pkt_ok \in BOOLEAN : CmdChLine(text, pkt_ok)
  \/ \E v \in NodeNames : CmdSetName(v)

SpecChat == InitChat /\ [][NextChat]_vars

\* ----------------------------------------------------- direct messages --

\* The name of contact i of the table, nullptr for i = 0.
ContactName(i) == IF i = 0 THEN NullStr ELSE contacts[i].name

\* What `to`, `send` and an arriving ACK leave unchanged.
AckFrame ==
  UNCHANGED << running, fs_up, prefs, disk, active_channels, channel_muted,
               command, pending, contacts, shell, nticks, routed, cfile,
               ports, sinks, clock >>

\* `to <prefix>`
CmdTo(prefix) ==
  /\ Dispatch
  /\ ncmds' = ncmds + 1
  /\ curr_recipient' = searchContactsByPrefix(contacts, prefix)
  /\ last' = [ NoOutput EXCEPT
                 !.cmd = "to",
                 !.result = IF curr_recipient' # 0 THEN "selected"
                            ELSE "not_found",
                 !.shown = ContactName(curr_recipient') ]
  /\ UNCHANGED << expected_ack_crc, sent_to >>
  /\ AckFrame

\* `send <text>`. sent: sendMessage did not return MSG_SEND_FAILED; crc: the
\* ACK value sendMessage computes for the message; stored: sendMessage had
\* written it to expected_ack_crc when it failed.
CmdSend(sent, crc, stored) ==
  /\ Dispatch
  /\ ncmds' = ncmds + 1
  /\ IF curr_recipient = 0 THEN
       /\ last' = [ NoOutput EXCEPT !.cmd = "send",
                                     !.result = "err_no_recipient" ]
       /\ UNCHANGED << expected_ack_crc, sent_to >>
     ELSE IF sent THEN
       /\ expected_ack_crc' = crc
       /\ sent_to' = { m \in sent_to : m.crc # crc }
                       \cup { [ crc |-> crc, to |-> ContactName(curr_recipient) ] }
       /\ last' = [ NoOutput EXCEPT !.cmd = "send", !.result = "sent",
                                     !.shown = ContactName(curr_recipient) ]
     ELSE
       /\ expected_ack_crc' = IF stored THEN crc ELSE expected_ack_crc
       /\ UNCHANGED sent_to
       /\ last' = [ NoOutput EXCEPT !.cmd = "send", !.result = "err_unable" ]
  /\ UNCHANGED curr_recipient
  /\ AckFrame

\* processAck(data): expected_ack_crc afterwards, whether "Got ACK!" was
\* printed, and the contact returned (0: nullptr).
processAck(data) ==
  IF data = expected_ack_crc
  THEN [ crc |-> 0, accepted |-> TRUE, contact |-> curr_recipient ]
  ELSE [ crc |-> expected_ack_crc, accepted |-> FALSE, contact |-> 0 ]

\* An ACK with the value data arrives.
AckArrives(data) ==
  /\ running
  /\ LET r == processAck(data)
     IN  /\ expected_ack_crc' = r.crc
         /\ sent_to' = IF r.accepted THEN { m \in sent_to : m.crc # data }
                       ELSE sent_to
         /\ last' = [ NoOutput EXCEPT
                        !.cmd = "ack",
                        !.result = IF r.accepted THEN "accepted" ELSE "ignored",
                        !.shown = ContactName(r.contact) ]
  /\ UNCHANGED << ncmds, curr_recipient >>
  /\ AckFrame

\* The contact table: "al" and "bo".
AckContacts == << [ name |-> << 97, 108 >> ], [ name |-> << 98, 111 >> ] >>

\* After begin(), with two contacts and no recipient selected.
InitAck ==
  /\ running = TRUE
  /\ fs_up = TRUE
  /\ prefs = DefaultPrefs
  /\ disk = [ exists |-> FALSE, data |-> DefaultPrefs ]
  /\ active_channels = initChannels(prefs).ac
  /\ channel_muted = initChannels(prefs).cm
  /\ last = NoOutput
  /\ ncmds = 0
  /\ command = << >> /\ pending = << >> /\ contacts = AckContacts
  /\ curr_recipient = 0 /\ shell = NoTick /\ nticks = 0
  /\ routed = NotRouted /\ cfile = NoFile
  /\ SideIdle

\* `to` with the prefixes "al", "bo" and "zz", `send`, and ACKs with the
\* values 0, 1 and 2.
NextAck ==
  \/ \E prefix \in { << 97, 108 >>, << 98, 111 >>, << 122, 122 >> } :
       CmdTo(prefix)
  \/ \E sent \in BOOLEAN, crc \in { 1, 2 }, stored \in BOOLEAN :
       CmdSend(sent, crc, stored)
  \/ \E data \in 0..2 : AckArrives(data)

SpecAck == InitAck /\ [][NextAck]_vars

\* --------------------------------------------------------------- clock --

StrClockSync == << 99, 108, 111, 99, 107, 32, 115, 121, 110, 99 >>   \* "clock sync"

\* setClock that sets whatever it is given
setClock_Unchecked(curr, timestamp) ==
  [ time |-> timestamp, result |-> "ok" ]

\* setClock(timestamp) with the RTC at curr: the RTC's time afterwards and
\* the line printed.
setClock(curr, timestamp) ==
  IF Gt32(timestamp, curr) THEN [ time |-> timestamp, result |-> "ok" ]
  ELSE [ time |-> curr, result |-> "error" ]

\* What `time` and a received text message leave but the clock and last.
ClockFrame ==
  UNCHANGED << running, fs_up, prefs, disk, active_channels, channel_muted,
               linevars, ports, sinks, expected_ack_crc, sent_to >>

\* `time <epoch-seconds>`
CmdTime(arg) ==
  /\ Dispatch
  /\ ncmds' = ncmds + 1
  /\ LET secs == _atoi(arg)
         set == setClock(clock, secs)
     IN  /\ clock' = set.time
         /\ last' = [ NoOutput EXCEPT !.cmd = "time", !.result = set.result,
                                       !.requested = secs ]
  /\ ClockFrame

\* onMessageRecv(from, pkt, sender_timestamp, text)
RecvMessage(sender_timestamp, text) ==
  /\ running
  /\ IF text = StrClockSync THEN
       LET set == setClock(clock, Inc32(sender_timestamp))
       IN  /\ clock' = set.time
           /\ last' = [ NoOutput EXCEPT !.cmd = "clock sync",
                                         !.result = set.result,
                                         !.requested = Inc32(sender_timestamp) ]
     ELSE
       /\ last' = [ NoOutput EXCEPT !.cmd = "message" ]
       /\ UNCHANGED clock
  /\ UNCHANGED ncmds
  /\ ClockFrame

\* Numbers typed after `time `: "0", "5", "70000", "4294967295",
\* "4294967296" (0 after the wrap), "4294967301" (5 after the wrap), "x".
TimeArgs ==
  { << 48 >>, << 53 >>, << 55, 48, 48, 48, 48 >>,
    << 52, 50, 57, 52, 57, 54, 55, 50, 57, 53 >>,
    << 52, 50, 57, 52, 57, 54, 55, 50, 57, 54 >>,
    << 52, 50, 57, 52, 57, 54, 55, 51, 48, 49 >>, << 120 >> }

\* Sender timestamps: 4, 0x0000FFFF, 70000, 0xFFFFFFFF.
SenderTimes == { << 0, 4 >>, << 0, 65535 >>, << 1, 4464 >>, << 65535, 65535 >> }

\* After begin(), with the RTC at 0, at 5 or at 65536.
InitClock ==
  /\ running = TRUE
  /\ fs_up = TRUE
  /\ prefs = DefaultPrefs
  /\ disk = [ exists |-> FALSE, data |-> DefaultPrefs ]
  /\ active_channels = initChannels(prefs).ac
  /\ channel_muted = initChannels(prefs).cm
  /\ last = NoOutput
  /\ ncmds = 0
  /\ command = << >> /\ pending = << >> /\ contacts = << >>
  /\ curr_recipient = 0 /\ shell = NoTick /\ nticks = 0
  /\ routed = NotRouted /\ cfile = NoFile
  /\ ports = PortsAtStart /\ sinks = [ i \in 0..2 |-> << >> ]
  /\ expected_ack_crc = 0 /\ sent_to = {}
  /\ clock \in { Zero32, << 0, 5 >>, << 1, 0 >> }

NextClock ==
  \/ \E a \in TimeArgs : CmdTime(a)
  \/ \E t \in SenderTimes, text \in { StrClockSync, NameA } :
       RecvMessage(t, text)

SpecClock == InitClock /\ [][NextClock]_vars

\* ------------------------------------------------------ contact store --

\* #define MAX_CONTACTS (build flag; the store of the model holds two)
MAX_CONTACTS == 2

\* Bytes of one contact in the /contacts file:
\* 32 + 32 + 1 + 1 + 1 + 4 + 1 + 4 + 64
CONTACT_RECORD_SIZE == 140

\* n bytes of value b
Fill(n, b) == [ i \in 1..n |-> b ]

\* A C string in a char array of n bytes, the rest zero.
InArray(str, n) == str \o Fill(n - Len(str), 0)

\* The 4 bytes of a uint32_t (least significant first) and back; values below
\* 2^31.
U32Bytes(v) ==
  << v % 256, (v \div 256) % 256, (v \div 65536) % 256, v \div 16777216 >>
U32Value(b) == b[1] + 256 * b[2] + 65536 * b[3] + 16777216 * b[4]

\* The byte of an int8_t and back.
I8Byte(v) == (v + 256) % 256
I8Value(b) == IF b >= 128 THEN b - 256 ELSE b

\* The writes of one pass of the loop in saveContacts, with the flags
\* written before the type.
WriteContact_FlagsFirst(c) ==
  c.pub_key \o c.name \o << c.flags, c.type, 0 >> \o << 0, 0, 0, 0 >>
    \o << I8Byte(c.out_path_len) >> \o U32Bytes(c.last_advert_timestamp)
    \o c.out_path

\* The nine writes of one pass of the loop in saveContacts
WriteContact(c) ==
  c.pub_key \o c.name \o << c.type, c.flags, 0 >> \o << 0, 0, 0, 0 >>
    \o << I8Byte(c.out_path_len) >> \o U32Bytes(c.last_advert_timestamp)
    \o c.out_path

\* The nine reads of one pass of the loop in loadContacts, all successful
ReadContact(b) ==
  [ pub_key |-> SubSeq(b, 1, 32),
    name |-> SubSeq(b, 33, 64),
    type |-> b[65],
    flags |-> b[66],
    out_path_len |-> I8Value(b[72]),
    last_advert_timestamp |-> U32Value(SubSeq(b, 73, 76)),
    out_path |-> SubSeq(b, 77, 140) ]

\* BaseChatMesh::addContact: appends while the table has room.
addContact(store, c) ==
  IF Len(store) < MAX_CONTACTS
  THEN [ ok |-> TRUE, store |-> Append(store, c) ]
  ELSE [ ok |-> FALSE, store |-> store ]

\* The loop of loadContacts that also adds what a short read left in c (the
\* bytes read, the rest zero).
RECURSIVE LoadLoop_AddsPartial(_, _)
LoadLoop_AddsPartial(store, data) ==
  IF data = << >> THEN store
  ELSE
    LET r == addContact(store,
               ReadContact(InArray(Take(data, CONTACT_RECORD_SIZE),
                                   CONTACT_RECORD_SIZE)))
    IN  IF r.ok
        THEN LoadLoop_AddsPartial(r.store, Drop(data, CONTACT_RECORD_SIZE))
        ELSE store

\* while (!full) { read one record; if (!success) break; addContact } on the
\* bytes data still unread
RECURSIVE LoadLoop(_, _)
LoadLoop(store, data) ==
  IF Len(data) < CONTACT_RECORD_SIZE THEN store
  ELSE
    LET r == addContact(store, ReadContact(Take(data, CONTACT_RECORD_SIZE)))
    IN  IF r.ok THEN LoadLoop(r.store, Drop(data, CONTACT_RECORD_SIZE))
        ELSE store

\* The file as saveContacts finds it after opening it for writing, had the
\* open kept the previous contents (append).
OpenForWrite_Append(file) == [ exists |-> TRUE, data |-> file.data ]

\* _fs->open("/contacts", "w", true) (remove + open on NRF52): an empty file
OpenForWrite(file) == [ exists |-> TRUE, data |-> << >> ]

\* while (iter.hasNext(this, c)) { nine writes; if (!success) break; } when
\* the stream accepts room more bytes (room < 0: any number)
RECURSIVE SaveLoop(_, _)
SaveLoop(store, room) ==
  IF store = << >> THEN << >>
  ELSE IF room < 0 THEN WriteContact(store[1]) \o SaveLoop(Tail(store), room)
  ELSE IF room >= CONTACT_RECORD_SIZE THEN
    WriteContact(store[1])
      \o SaveLoop(Tail(store), room - CONTACT_RECORD_SIZE)
  ELSE Take(WriteContact(store[1]), room)

\* Contacts: public key, name, type, flags, path length (-1: none known),
\* time of the last advert, path.
ContactA ==
  [ pub_key |-> Fill(32, 161), name |-> InArray(<< 97, 108 >>, 32),
    type |-> 1, flags |-> 0, out_path_len |-> -1,
    last_advert_timestamp |-> 1700000000, out_path |-> Fill(64, 0) ]
ContactB ==
  [ pub_key |-> Fill(32, 178), name |-> Fill(32, 66),
    type |-> 2, flags |-> 129, out_path_len |-> 2,
    last_advert_timestamp |-> 258, out_path |-> InArray(<< 7, 9 >>, 64) ]
ContactC ==
  [ pub_key |-> << 0 >> \o Fill(31, 195), name |-> InArray(<< 99 >>, 32),
    type |-> 3, flags |-> 255, out_path_len |-> 0,
    last_advert_timestamp |-> 0, out_path |-> Fill(64, 255) ]

ContactSet == { ContactA, ContactB, ContactC }

\* Contact tables of at most MAX_CONTACTS contacts.
ContactTables ==
  { << >> } \cup { << c >> : c \in ContactSet }
    \cup { << c, d >> : c \in ContactSet, d \in ContactSet }

\* One record whose reserved bytes are not zero.
RecordWithReserved ==
  [ i \in 1..CONTACT_RECORD_SIZE |->
      IF i \in 67..71 THEN 90 ELSE WriteContact(ContactB)[i] ]

\* Contents of the /contacts file: empty, one record, three records, one
\* record and 100 bytes of a second one, two records and one more byte, a
\* record with non-zero reserved bytes, 139 bytes.
ContactFiles ==
  { << >>,
    WriteContact(ContactA),
    WriteContact(ContactC) \o WriteContact(ContactB) \o WriteContact(ContactA),
    WriteContact(ContactB) \o Take(WriteContact(ContactC), 100),
    WriteContact(ContactA) \o WriteContact(ContactB) \o << 195 >>,
    RecordWithReserved,
    Take(WriteContact(ContactA), 139) }

\* Bytes the stream accepts during one saveContacts before a write fails
\* (-1: no write fails).
WriteRooms == { -1, 0, 100, 140, 200 }

\* Some moment of a run: a contact table, a contacts file from an earlier
\* save (or none).
InitContacts ==
  /\ running = TRUE
  /\ fs_up = TRUE
  /\ prefs = DefaultPrefs
  /\ disk = [ exists |-> FALSE, data |-> DefaultPrefs ]
  /\ active_channels = initChannels(DefaultPrefs).ac
  /\ channel_muted = initChannels(DefaultPrefs).cm
  /\ last = NoOutput
  /\ ncmds = 0
  /\ command = << >>
  /\ pending = << >>
  /\ contacts \in ContactTables
  /\ curr_recipient = 0
  /\ shell = NoTick
  /\ nticks = 0
  /\ routed = NotRouted
  /\ \/ cfile = NoFile
     \/ \E d \in ContactFiles : cfile = [ exists |-> TRUE, data |-> d ]
  /\ SideIdle

\* loadContacts() in begin(), after a restart (no contact in the table).
\* opens: _fs->open returned a file.
loadContacts(opens) ==
  /\ contacts' = IF cfile.exists /\ opens THEN LoadLoop(<< >>, cfile.data)
                 ELSE << >>
  /\ curr_recipient' = 0
  /\ last' = [ NoOutput EXCEPT
                 !.cmd = "loadContacts",
                 !.result = IF cfile.exists /\ opens THEN "read"
                            ELSE "no_file" ]
  /\ UNCHANGED << running, fs_up, prefs, disk, active_channels, channel_muted,
                  ncmds, command, pending, shell, nticks, routed, cfile >>
  /\ UNCHANGED sidevars

\* The /contacts file after saveContacts() has run on the table store.
SavedFile(file, store, opens, removed, room) ==
  IF opens
  THEN [ OpenForWrite(file) EXCEPT !.data = @ \o SaveLoop(store, room) ]
  ELSE IF removed THEN NoFile ELSE file

\* saveContacts(). opens: _fs->open returned a file; room: the bytes the
\* stream accepts before a write fails. (When the open fails the previous
\* file is left as it was; on NRF52 it has been removed.)
saveContacts(opens, removed, room) ==
  /\ cfile' = SavedFile(cfile, contacts, opens, removed, room)
  /\ last' =
       [ NoOutput EXCEPT
           !.cmd = "saveContacts",
           !.result =
             IF ~opens THEN "not_opened"
             ELSE IF room < 0 \/ room >= CONTACT_RECORD_SIZE * Len(contacts)
               THEN "saved"
             ELSE "write_failed" ]
  /\ UNCHANGED << running, fs_up, prefs, disk, active_channels, channel_muted,
                  ncmds, command, pending, contacts, curr_recipient, shell,
                  nticks, routed >>
  /\ UNCHANGED sidevars

NextContacts ==
  \/ \E opens \in BOOLEAN : loadContacts(opens)
  \/ \E opens \in BOOLEAN, removed \in BOOLEAN, room \in WriteRooms :
       saveContacts(opens, removed, room)

SpecContacts == InitContacts /\ [][NextContacts]_vars

\* ----------------------------------------------------- contact events --

\* onDiscoveredContact that saves only when it prints the notice
onDiscoveredContact_SavesWhenShown(p, file, store, opens) ==
  [ notice |-> ~p.mute_adverts,
    file |-> IF ~p.mute_adverts THEN SavedFile(file, store, opens, FALSE, -1)
             ELSE file ]

\* onDiscoveredContact(contact, ...) with the table store: whether the ADVERT
\* notice is printed, and the /contacts file afterwards.
onDiscoveredContact(p, file, store, opens) ==
  [ notice |-> ~p.mute_adverts,
    file |-> SavedFile(file, store, opens, FALSE, -1) ]

\* What the contact events leave unchanged.
EventFrame ==
  UNCHANGED << running, fs_up, prefs, disk, active_channels, channel_muted,
               ncmds, command, pending, curr_recipient, shell, nticks, routed,
               sidevars >>

\* An advert of contact c is received: BaseChatMesh updates the contact with
\* that public key or adds it while the table has room, and then calls
\* onDiscoveredContact.
Discovered(c, opens) ==
  /\ running
  /\ LET known == { i \in 1..Len(contacts) : contacts[i].pub_key = c.pub_key }
     IN  /\ known # {} \/ Len(contacts) < MAX_CONTACTS
         /\ contacts' = IF known # {}
                        THEN [ contacts EXCEPT ![Min(known)] = c ]
                        ELSE addContact(contacts, c).store
  /\ LET r == onDiscoveredContact(prefs, cfile, contacts', opens)
     IN  /\ cfile' = r.file
         /\ last' = [ NoOutput EXCEPT
                        !.cmd = "advert",
                        !.result = IF r.notice THEN "shown" ELSE "silent" ]
  /\ EventFrame

\* The path to contact i changes to one of len hops: BaseChatMesh stores it
\* and calls onContactPathUpdated, which prints and saves.
PathUpdated(i, len, opens) ==
  /\ running
  /\ i \in 1..Len(contacts)
  /\ contacts' = [ contacts EXCEPT ![i].out_path_len = len ]
  /\ cfile' = SavedFile(cfile, contacts', opens, FALSE, -1)
  /\ last' = [ NoOutput EXCEPT !.cmd = "path", !.result = "shown" ]
  /\ EventFrame

\* `reset path`: with a recipient, resetPathTo (out_path_len = -1) and
\* saveContacts(); without one, nothing.
CmdResetPath(opens) ==
  /\ running
  /\ IF curr_recipient # 0 THEN
       /\ contacts' = [ contacts EXCEPT ![curr_recipient].out_path_len = -1 ]
       /\ cfile' = SavedFile(cfile, contacts', opens, FALSE, -1)
       /\ last' = [ NoOutput EXCEPT !.cmd = "reset path", !.result = "done" ]
     ELSE
       /\ last' = [ NoOutput EXCEPT !.cmd = "reset path" ]
       /\ UNCHANGED << contacts, cfile >>
  /\ EventFrame

\* Some moment of a run: adverts shown or muted, no contact or contact B,
\* selected or not, no contacts file yet.
InitEvents ==
  /\ running = TRUE
  /\ fs_up = TRUE
  /\ \E m \in BOOLEAN : prefs = [ DefaultPrefs EXCEPT !.mute_adverts = m ]
  /\ disk = [ exists |-> FALSE, data |-> DefaultPrefs ]
  /\ active_channels = initChannels(DefaultPrefs).ac
  /\ channel_muted = initChannels(DefaultPrefs).cm
  /\ last = NoOutput
  /\ ncmds = 0
  /\ command = << >>
  /\ pending = << >>
  /\ contacts \in { << >>, << ContactB >> }
  /\ curr_recipient \in 0..Len(contacts)
  /\ shell = NoTick
  /\ nticks = 0
  /\ routed = NotRouted
  /\ cfile = NoFile
  /\ SideIdle

NextEvents ==
  \/ \E c \in { ContactA, ContactB }, opens \in BOOLEAN : Discovered(c, opens)
  \/ \E i \in 1..MAX_CONTACTS, opens \in BOOLEAN : PathUpdated(i, 2, opens)
  \/ \E opens \in BOOLEAN : CmdResetPath(opens)

SpecEvents == InitEvents /\ [][NextEvents]_vars

\* ------------------------------------------------------------ claims -----

\* The key bytes a slot stands for: the first 16 digest bytes of a hashtag
\* name, or the bytes its stored hex key spells.
SlotKeyBytes(slot) ==
  IF Len(slot.name) > 0 /\ slot.name[1] = 35
  THEN Take(Sha256(slot.name), 16)
  ELSE FromHex(slot.key_hex)

\* Runtime indices >= 1 that hold the channel of slot i (its name and key).
RuntimeIndexOf(i) ==
  { j \in ChanIdx :
      /\ j >= 1
      /\ active_channels[j] # NullChannel
      /\ active_channels[j].name = prefs.channels[i].name
      /\ active_channels[j].secret = SlotKeyBytes(prefs.channels[i]) }

C2_DelSelectedResets ==
  [][ \A n \in NameArgs :
        ( /\ CmdDelCh(n)
          /\ prefs.selected_channel_idx > 0
          /\ findChannelByName(prefs, n) = prefs.selected_channel_idx
          /\ last'.result = "removed" )
        => /\ prefs'.selected_channel_idx = 0
           /\ fs_up => disk'.data.selected_channel_idx = 0 ]_vars

\* C3: a channel accepted by `set ch <name> <hexkey>` with a key of 32 or 64 hex
\* characters is stored with the complete key as given, and the next
\* initChannels gives it a runtime entry whose key is the 16 or 32 bytes that
\* hex key spells.
C3_KeyStoredAndDerived ==
  [][ \A n \in NameArgs, k \in KeyArgs :
        ( /\ CmdSetCh(n, k)
          /\ n[1] # 35
          /\ Len(k) \in { 32, 64 }
          /\ last'.result = "added" )
        => \E i \in SlotIdx :
             /\ prefs'.channels[i].active
             /\ StrCaseEq(prefs'.channels[i].name, n)
             /\ prefs'.channels[i].key_hex = k
             /\ \E j \in ChanIdx :
                  /\ j >= 1
                  /\ initChannels(prefs').ac[j].name = prefs'.channels[i].name
                  /\ initChannels(prefs').ac[j].secret = FromHex(k) ]_vars

\* C4: for every active slot that has a runtime entry, findChannelByName of its
\* name is exactly the index at which the runtime list holds that slot's
\* channel (slots named like the built-in channel are left to C9).
C4_ResolveIsRuntimeIndex ==
  running =>
    \A i \in SlotIdx :
      ( /\ prefs.channels[i].active
        /\ ~StrCaseEq(prefs.channels[i].name, StrPublicL)
        /\ ~StrCaseEq(prefs.channels[i].name, StrPubL)
        /\ RuntimeIndexOf(i) # {} )
      => findChannelByName(prefs, prefs.channels[i].name) \in RuntimeIndexOf(i)

\* C5: for every active slot name n with findChannelByName(n) = i >= 1,
\* getChannelName(i) is the name of that same slot (never nullptr, never
\* another slot's name), and getChannelName(0) is "Public".
C5_NameOfInvertsResolve ==
  running =>
    /\ getChannelName(prefs, active_channels, 0) = StrPublic
    /\ \A i \in SlotIdx :
         ( /\ prefs.channels[i].active
           /\ findChannelByName(prefs, prefs.channels[i].name) >= 1 )
         => getChannelName(prefs, active_channels,
              findChannelByName(prefs, prefs.channels[i].name))
            = prefs.channels[i].name

\* The name and key `set ch` hands to setUserChannel for the tokens typed.
GivenName(tok1) == Scan31(tok1)
GivenKey(tok1, tok2) == IF tok1[1] = 35 THEN << >> ELSE tok2

\* The tokens pass the handler's validation (hashtag name, or a key of 32 or 64
\* hex characters).
ValidSetCh(tok1, tok2) ==
  \/ tok1[1] = 35
  \/ /\ Len(tok2) \in { 32, 64 }
     /\ \A c \in 1..Len(tok2) : IsHexChar(tok2[c])

ActiveMatches(p, name) ==
  { i \in SlotIdx : p.channels[i].active /\ StrCaseEq(p.channels[i].name, name) }

InactiveSlots(p) == { i \in SlotIdx : ~p.channels[i].active }

\* C6: setUserChannel(name, key): if an active slot has the same name
\* case-insensitively, only that slot's key is replaced by the given key and the
\* call succeeds (also when every slot is active); otherwise the lowest-index
\* inactive slot becomes active with the given name and key and mute flag
\* false; no other slot changes.
C6_AddOrUpdate ==
  [][ last'.cmd = "set ch" =>
      \A n \in NameArgs, k \in KeyArgs :
        ( CmdSetCh(n, k) /\ ValidSetCh(n, k) ) =>
          IF ActiveMatches(prefs, GivenName(n)) # {} THEN
            /\ last'.result = "added"
            /\ \E i \in ActiveMatches(prefs, GivenName(n)) :
                 prefs'.channels =
                   [ prefs.channels EXCEPT ![i].key_hex = GivenKey(n, k) ]
          ELSE IF InactiveSlots(prefs) # {} THEN
            /\ last'.result = "added"
            /\ prefs'.channels =
                 [ prefs.channels EXCEPT ![Min(InactiveSlots(prefs))] =
                     [ name |-> GivenName(n), key_hex |-> GivenKey(n, k),
                       active |-> TRUE, muted |-> FALSE ] ]
          ELSE TRUE ]_vars

\* C7: when every user slot is active and the given name matches none of them,
\* `set ch` reports the channel limit (for tokens that pass validation) and
\* leaves the slots, the selected index, the runtime list and the persisted
\* preferences unchanged; the shell keeps running. (For each pair of tokens:
\* the step reported the limit and changed nothing, or the name matches a
\* slot, or the step is not this command, or the tokens fail validation and
\* nothing changed.)
C7_FullChangesNothing ==
  [][ ( last'.cmd = "set ch" /\ InactiveSlots(prefs) = {} ) =>
      \A n \in NameArgs, k \in KeyArgs :
        \/ /\ last'.result = "full"
           /\ prefs' = prefs
           /\ disk' = disk
           /\ active_channels' = active_channels
           /\ channel_muted' = channel_muted
           /\ running' = running
        \/ ActiveMatches(prefs, GivenName(n)) # {}
        \/ ~CmdSetCh(n, k)
        \/ /\ ~ValidSetCh(n, k)
           /\ prefs' = prefs
           /\ disk' = disk
           /\ active_channels' = active_channels
           /\ channel_muted' = channel_muted
           /\ running' = running ]_vars

\* C7 witness: `set ch` was refused with the channel limit while all slots
\* were active.
C7_Witness ==
  /\ last.cmd = "set ch"
  /\ last.result = "full"
  /\ InactiveSlots(prefs) = {}

\* C8: `del ch <name>`: the built-in name is refused and nothing changes; else
\* if an active slot's name equals name case-insensitively, exactly that slot
\* is deactivated and every other slot is unchanged; else nothing changes. The
\* runtime list, and with it the built-in channel, is never touched.
C8_RemoveExactlyOne ==
  [][ last'.cmd = "del ch" =>
      \A n \in NameArgs :
        CmdDelCh(n) =>
          /\ active_channels' = active_channels
          /\ IF StrCaseEq(n, StrPublic) THEN
               /\ last'.result = "refused"
               /\ prefs' = prefs /\ disk' = disk
             ELSE IF ActiveMatches(prefs, n) # {} THEN
               /\ last'.result = "removed"
               /\ \E i \in ActiveMatches(prefs, n) :
                    prefs'.channels =
                      [ prefs.channels EXCEPT ![i].active = FALSE ]
             ELSE
               /\ last'.result = "not_found"
               /\ prefs' = prefs /\ disk' = disk ]_vars

\* C8 witness: a channel was removed while another slot stays active.
C8_Witness ==
  /\ last.cmd = "del ch"
  /\ last.result = "removed"
  /\ \E i \in SlotIdx : prefs.channels[i].active
  /\ \E i \in SlotIdx : ~prefs.channels[i].active /\ Len(prefs.channels[i].name) > 0

\* C9: no two active slots have names equal case-insensitively, and no active
\* slot has a name equal case-insensitively to the built-in channel's name.
C9_NamesUnique ==
  /\ \A i \in SlotIdx, j \in SlotIdx :
       ( i # j /\ prefs.channels[i].active /\ prefs.channels[j].active )
       => ~StrCaseEq(prefs.channels[i].name, prefs.channels[j].name)
  /\ \A i \in SlotIdx :
       prefs.channels[i].active => ~StrCaseEq(prefs.channels[i].name, StrPublic)

\* A slot's key derives: hashtag name, or a stored hex key of length 32 or 64.
Derives(slot) ==
  \/ Len(slot.name) > 0 /\ slot.name[1] = 35
  \/ Len(slot.key_hex) \in { 32, 64 }

DerivedSlots(p) ==
  { i \in SlotIdx : p.channels[i].active /\ Derives(p.channels[i]) }

\* The 16 bytes PUBLIC_GROUP_PSK encodes.
PublicSecret ==
  << 139, 51, 135, 233, 197, 205, 234, 106,
     201, 229, 237, 186, 161, 21, 205, 114 >>

\* C10: after initChannels, for any slot contents: the runtime list has at most
\* MAX_GROUP_CHANNELS entries; index 0 holds the built-in channel; the entries
\* at indices 1..N are exactly the active slots whose key derives, in slot
\* order, each with its name, key bytes and mute flag; every index above N is
\* empty (a slot whose key does not derive occupies no index).
C10_RuntimeIsDenseProjection ==
  last.cmd = "begin" =>
    /\ DOMAIN active_channels = 0 .. (MAX_GROUP_CHANNELS - 1)
    /\ active_channels[0] = [ name |-> StrPublic, secret |-> PublicSecret ]
    /\ \A i \in DerivedSlots(prefs) :
         LET r == Cardinality({ j \in DerivedSlots(prefs) : j <= i })
         IN  /\ active_channels[r].name = prefs.channels[i].name
             /\ active_channels[r].secret = SlotKeyBytes(prefs.channels[i])
             /\ channel_muted[r] = prefs.channels[i].muted
    /\ \A j \in ChanIdx :
         j > Cardinality(DerivedSlots(prefs)) =>
           /\ active_channels[j] = NullChannel
           /\ channel_muted[j] = FALSE

\* C10 witness: the first slot is active without a derivable key, a later slot
\* is active, muted and derives, and holds runtime index 1.
C10_Witness ==
  /\ last.cmd = "begin"
  /\ prefs.channels[0].active /\ ~Derives(prefs.channels[0])
  /\ prefs.channels[2].active /\ Derives(prefs.channels[2])
  /\ ~prefs.channels[1].active
  /\ prefs.channels[2].muted
  /\ active_channels[1].name = prefs.channels[2].name
  /\ channel_muted[1]

\* C11 (as claimed): `set ch` and `del ch` leave every active_channels entry and
\* every channel_muted flag unchanged, whether they succeed or fail, and the
\* runtime list (entries and mute flags) changes only at startup.
C11_RuntimeChangesOnlyAtStartup ==
  [][ /\ last'.cmd \in { "set ch", "del ch" } =>
           /\ active_channels' = active_channels
           /\ channel_muted' = channel_muted
      /\ ( active_channels' # active_channels \/ channel_muted' # channel_muted )
           => last'.cmd \in { "begin", "reboot" } ]_vars

\* C11 (amended): `set ch` and `del ch` leave every active_channels entry and
\* every channel_muted flag unchanged, whether they succeed or fail; the
\* entries of the runtime list change only at startup, and its mute flags
\* change only at startup or by `mute ch` / `unmute ch`.
C11_SetDelLeaveRuntime ==
  [][ /\ last'.cmd \in { "set ch", "del ch" } =>
           /\ active_channels' = active_channels
           /\ channel_muted' = channel_muted
      /\ active_channels' # active_channels
           => last'.cmd \in { "begin", "reboot" }
      /\ channel_muted' # channel_muted
           => last'.cmd \in { "begin", "reboot", "mute ch", "unmute ch" } ]_vars

\* C11 witness: a channel was removed by `del ch` and the runtime list still
\* holds its entry.
C11_Witness ==
  /\ last.cmd = "del ch"
  /\ last.result = "removed"
  /\ \E i \in SlotIdx, j \in ChanIdx :
       /\ j >= 1
       /\ ~prefs.channels[i].active
       /\ StrCaseEq(prefs.channels[i].name, last.shown)
       /\ active_channels[j] # NullChannel
       /\ active_channels[j].name = prefs.channels[i].name

\* C12: `set ch <name> <key>` with a name not starting with '#' creates or
\* changes a slot only if the key token as typed has exactly 32 or exactly 64
\* characters, all of them hex digits; with any other key token no slot is
\* created or changed.
C12_OnlyValidKeysAccepted ==
  [][ last'.cmd = "set ch" =>
      \A n \in NameArgs, k \in KeyArgs :
        \/ n[1] = 35
        \/ ( Len(k) \in { 32, 64 } /\ \A c \in 1..Len(k) : IsHexChar(k[c]) )
        \/ prefs'.channels = prefs.channels
        \/ ~CmdSetCh(n, k) ]_vars

\* The first word of a trimmed line (its characters before the first space).
FirstWord(cmd) ==
  LET sp == { i \in 1..Len(cmd) : cmd[i] = 32 }
  IN  IF sp = {} THEN cmd ELSE SubSeq(cmd, 1, Min(sp) - 1)

\* The words a command of the grammar begins with.
GrammarWords ==
  { << 115, 101, 110, 100 >>,
    << 99, 104 >>,
    << 99, 104, 115, 101, 108 >>,
    << 108, 105, 115, 116 >>,
    << 99, 108, 111, 99, 107 >>,
    << 116, 105, 109, 101 >>,
    << 116, 111 >>,
    << 97, 100, 118, 101, 114, 116 >>,
    << 114, 101, 115, 101, 116 >>,
    << 99, 97, 114, 100 >>,
    << 105, 109, 112, 111, 114, 116 >>,
    << 115, 101, 116 >>,
    << 103, 101, 116 >>,
    << 100, 101, 108 >>,
    << 118, 101, 114 >>,
    << 109, 117, 116, 101 >>,
    << 117, 110, 109, 117, 116, 101 >>,
    << 114, 101, 98, 111, 111, 116 >>,
    << 115, 101, 114, 105, 97, 108 >>,
    << 104, 101, 108, 112 >> }

StartsWith(s, p) == Len(s) >= Len(p) /\ SubSeq(s, 1, Len(p)) = p

\* C14: every submitted line that is not a command of the grammar (its first
\* word, after leading spaces, is not a command word; in particular a command
\* word followed directly by further letters) takes the unknown-command branch
\* and produces the "unknown command" message.
C14_UnknownCommandReported ==
  routed.handler # "" =>
    ( FirstWord(SkipSpaces(routed.line)) \notin GrammarWords
      => /\ routed.handler = "unknown"
         /\ routed.msg = "unknown command" )

\* C15: each submitted line takes exactly one branch, and the more specific
\* prefix wins: a line beginning `set ch ` takes the channel add/update branch
\* and not the generic `set` branch; a line beginning `mute ch ` /
\* `unmute ch ` takes the channel mute / unmute branch and not the advert
\* mute / unmute branch.
C15_SpecificPrefixWins ==
  routed.handler # "" =>
    LET cmd == SkipSpaces(routed.line)
    IN  /\ StartsWith(cmd, << 115, 101, 116, 32, 99, 104, 32 >>) => routed.handler = "set ch"
        /\ StartsWith(cmd, << 109, 117, 116, 101, 32, 99, 104, 32 >>) => routed.handler = "mute ch"
        /\ StartsWith(cmd, << 117, 110, 109, 117, 116, 101, 32, 99, 104, 32 >>) => routed.handler = "unmute ch"

\* C15 witness: a line beginning ` set ch ` (which the test for `set ` matches
\* too) was given to the channel add/update branch.
C15_Witness ==
  /\ routed.handler = "set ch"
  /\ StartsWith(SkipSpaces(routed.line), << 115, 101, 116, 32 >>)
  /\ routed.line[1] = 32

\* C13: a command rejected with a validation error (here: the name prefix of
\* `to <prefix>` or the channel name of `chsel` not found, an unknown command)
\* leaves the preferences in memory and on disk and the current recipient as
\* they were before the command.
C13_RejectedLeavesState ==
  \A i \in 1..Len(shell.events) :
    shell.events[i].result \in { "err_not_found", "err_unknown" }
      => shell.events[i].after = shell.events[i].before

\* C16: the command line never holds more than capacity-1 characters, during
\* a loop() call (so that its terminating NUL is inside the array) and between
\* calls; a call in which the length reaches that limit reports the error and
\* leaves the line empty, and only such a call reports it.
C16_BufferBounded ==
  /\ Len(command) <= COMMAND_SIZE - 1
  /\ shell.max_len <= COMMAND_SIZE - 1
  /\ shell.max_len >= COMMAND_SIZE - 1 => shell.too_long /\ command = << >>
  /\ shell.too_long => shell.max_len = COMMAND_SIZE - 1

\* C16 happens: the limit was reached by bytes that arrived in several calls.
C16_Witness ==
  /\ shell.too_long
  /\ command = << >>
  /\ shell.max_len = COMMAND_SIZE - 1
  /\ Len(shell.input) < COMMAND_SIZE - 1

\* C17: no part of a line longer than the buffer capacity is dispatched:
\* every CR or LF that ends a line which was cut by the "command too long"
\* error dispatches nothing.
C17_LongLineNeverDispatched ==
  \A i \in 1..Len(shell.events) :
    shell.events[i].cut => ~shell.events[i].fired

\* C18: a CR or LF read while the command line (the string held by the
\* buffer) is non-empty dispatches exactly that string; a CR or LF read while
\* it is empty dispatches nothing; a call that does not end with the "command
\* too long" error leaves no input unread, so every complete line available
\* to it was dispatched in it.
C18_DispatchOnLineEnd ==
  /\ \A i \in 1..Len(shell.events) :
       LET e == shell.events[i]
       IN  /\ CStr(e.typed) # << >> => e.fired /\ e.line = CStr(e.typed)
           /\ CStr(e.typed) = << >> => ~e.fired
  /\ ~shell.too_long => pending = << >>

\* The reference line editor of C19 applied to the bytes s, from the line buf:
\* Escape empties the line, backspace and delete remove its last character if
\* there is one, every other byte is appended (a run of them at once).
RECURSIVE RefEdit(_, _)
RefEdit(buf, s) ==
  IF s = << >> THEN buf
  ELSE IF s[1] = 27 THEN RefEdit(<< >>, Tail(s))
  ELSE IF s[1] \in { 8, 127 } THEN
    RefEdit(IF buf = << >> THEN buf ELSE SubSeq(buf, 1, Len(buf) - 1), Tail(s))
  ELSE
    LET stops == { i \in 1..Len(s) : s[i] \in { 27, 8, 127 } }
        n == IF stops = {} THEN Len(s) ELSE Min(stops) - 1
    IN  RefEdit(buf \o SubSeq(s, 1, n), SubSeq(s, n + 1, Len(s)))

\* C19: when the bytes read since the last line end contain no Tab (and the
\* line stayed below capacity), the command line between two loop() calls is
\* the string the reference line editor yields for those bytes, however they
\* were split into calls.
C19_MatchesReferenceEditor ==
  ( \A i \in 1..Len(shell.since) : shell.since[i] # 9 )
    => command = CStr(RefEdit(<< >>, shell.since))

\* The candidates of a Tab completion (C20): the contacts, or "Public" and the
\* active channel slots, whose name starts with the typed token, letter case
\* ignored.
Candidates(t) ==
  IF t.ctx = "to" THEN
    { i \in 1..Len(contacts) :
        /\ Len(contacts[i].name) >= Len(t.token)
        /\ \A j \in 1..Len(t.token) :
             ToLower(contacts[i].name[j]) = ToLower(t.token[j]) }
  ELSE IF t.ctx = "ch" THEN
    { i \in { -1 } \cup SlotIdx :
        LET name == IF i = -1 THEN StrPublic ELSE prefs.channels[i].name
        IN  /\ i # -1 => prefs.channels[i].active
            /\ Len(name) >= Len(t.token)
            /\ \A j \in 1..Len(t.token) :
                 ToLower(name[j]) = ToLower(t.token[j]) }
  ELSE { }

\* C20: a Tab pressed in a completion context with no candidate or with at
\* least two leaves the command line as it was; with at least two candidates
\* the names are printed, with none only the alert is sent.
C20_TabLeavesAmbiguousLine ==
  \A i \in 1..Len(shell.tabs) :
    LET t == shell.tabs[i]
        n == Cardinality(Candidates(t))
    IN  t.ctx # "none" /\ n # 1 =>
          /\ t.after = t.before
          /\ n >= 2 => Len(t.listed) = n /\ ~t.bell
          /\ n = 0 => t.listed = << >> /\ t.bell

\* The names of the candidates of a Tab completion.
CandidateNames(t) ==
  { IF t.ctx = "to" THEN contacts[i].name
    ELSE IF i = -1 THEN StrPublic ELSE prefs.channels[i].name :
      i \in Candidates(t) }

\* The length of the command prefix a completion context keeps.
PrefixLen(buf) ==
  IF StartsWith(buf, << 116, 111, 32 >>) THEN 3
  ELSE IF StartsWith(buf, << 99, 104, 115, 101, 108, 32 >>) THEN 6
  ELSE IF StartsWith(buf, << 109, 117, 116, 101, 32, 99, 104, 32 >>) THEN 8
  ELSE IF StartsWith(buf, << 117, 110, 109, 117, 116, 101, 32, 99, 104, 32 >>)
    THEN 10
  ELSE 7

\* C21: a Tab pressed with exactly one candidate leaves the command line as
\* the unchanged command prefix followed by the candidate's full name, its
\* length the sum of the two lengths.
C21_SingleCandidateCompleted ==
  \A i \in 1..Len(shell.tabs) :
    LET t == shell.tabs[i]
    IN  t.ctx # "none" /\ Cardinality(Candidates(t)) = 1 =>
          \A name \in CandidateNames(t) :
            /\ t.after = SubSeq(t.before, 1, PrefixLen(t.before)) \o name
            /\ Len(t.after) = PrefixLen(t.before) + Len(name)

\* C22: after `to `, the contacts collected as matches by a Tab are exactly
\* the contacts of whose name the typed token is a case-insensitive prefix; a
\* contact whose name is shorter than the token is not among them.
C22_ContactCandidatesArePrefixMatches ==
  \A i \in 1..Len(shell.tabs) :
    LET t == shell.tabs[i]
    IN  t.ctx = "to" =>
          /\ { t.matched[j] : j \in 1..Len(t.matched) } = CandidateNames(t)
          /\ \A j \in 1..Len(t.matched) : Len(t.matched[j]) >= Len(t.token)

\* The matches collected by the Tabs of the last loop() call, in a channel
\* context, are "Public" (when the token is a case-insensitive prefix of it)
\* and the names of the active slots of which the token is a case-insensitive
\* prefix, one match per such slot, at most MAX_GROUP_CHANNELS in all.
TabsFollowSlots ==
  \A i \in 1..Len(shell.tabs) :
    LET t == shell.tabs[i]
    IN  t.ctx = "ch" =>
          /\ { t.matched[j] : j \in 1..Len(t.matched) } = CandidateNames(t)
          /\ Len(t.matched) = Cardinality(Candidates(t))
          /\ Len(t.matched) <= MAX_GROUP_CHANNELS

\* C23: after every loop() call, the channel matches its Tabs collected are
\* exactly the candidates given by the slots as they are at that moment
\* (whatever `set ch` and `del ch` did since boot), never more than
\* MAX_GROUP_CHANNELS.
C23_ChannelCandidatesFollowSlots ==
  [][ nticks' # nticks => TabsFollowSlots' ]_vars

\* C23 happens: a Tab on `chsel ` lists a channel added since boot (no entry
\* of the runtime list has its name) and does not list a channel deleted
\* since boot (still in the runtime list).
C23_Witness ==
  \E i \in 1..Len(shell.tabs) :
    LET t == shell.tabs[i]
        shown == { t.matched[j] : j \in 1..Len(t.matched) }
        booted == { active_channels[j].name :
                      j \in { k \in ChanIdx : active_channels[k] # NullChannel } }
    IN  /\ t.ctx = "ch"
        /\ t.token = << >>
        /\ shown \ booted # { }
        /\ booted \ shown # { }

\* The fields of the i-th record of a stream of records of the given size:
\* public key, name, type, flags, path length, advert time, path.
StreamRecord(data, i, size) ==
  LET b == SubSeq(data, size * (i - 1) + 1, size * i)
  IN  [ pub_key |-> SubSeq(b, 1, 32),
        name |-> SubSeq(b, 33, 64),
        type |-> b[65],
        flags |-> b[66],
        out_path_len |-> IF b[72] > 127 THEN b[72] - 256 ELSE b[72],
        last_advert_timestamp |->
          b[73] + 256 * ( b[74] + 256 * ( b[75] + 256 * b[76] ) ),
        out_path |-> SubSeq(b, 77, 140) ]

\* After a load, the table holds the first min(k, MAX_CONTACTS) of the k
\* complete records of the given size in the file, in stream order, and
\* nothing else.
LoadsFirstRecords(size) ==
  last.cmd = "loadContacts" /\ last.result = "read" =>
    LET k == Len(cfile.data) \div size
        n == IF k < MAX_CONTACTS THEN k ELSE MAX_CONTACTS
    IN  /\ Len(contacts) = n
        /\ \A i \in 1..n : contacts[i] = StreamRecord(cfile.data, i, size)

\* C24 as stated: loading a stream of k complete 141-byte records, possibly
\* followed by a partial one, into the empty table yields exactly the first
\* min(k, MAX_CONTACTS) records in stream order.
C24_LoadsFirst141ByteRecords == LoadsFirstRecords(141)

\* C24 amended: the same for records of 140 bytes, the size loadContacts
\* reads (32 + 32 + 1 + 1 + 1 + 4 + 1 + 4 + 64).
C24_LoadsFirstRecords == LoadsFirstRecords(140)

\* C24 happens: a file of three records was loaded into a table of two.
C24_Witness ==
  /\ last.cmd = "loadContacts"
  /\ last.result = "read"
  /\ Len(cfile.data) = 3 * 140
  /\ Len(contacts) = MAX_CONTACTS

\* The number of times record r occurs in the table s.
Count(s, r) == Cardinality({ i \in 1..Len(s) : s[i] = r })

\* C25: after a saveContacts that opened the file and met no write failure,
\* loading the file into an empty table gives the same multiset of contacts
\* (public key, name, type, flags, path length, advert time and path of every
\* record) as the table that was saved.
C25_SaveLoadRoundTrip ==
  [][ last'.cmd = "saveContacts" /\ last'.result = "saved" =>
        LET loaded == LoadLoop(<< >>, cfile'.data)
        IN  /\ Len(loaded) = Len(contacts)
            /\ \A c \in ContactSet : Count(loaded, c) = Count(contacts, c) ]_vars

\* C25 happens: a table of two different contacts, one with a negative path
\* length and one with a name of 32 characters, was saved completely.
C25_Witness ==
  /\ last.cmd = "saveContacts"
  /\ last.result = "saved"
  /\ Count(contacts, ContactA) = 1
  /\ Count(contacts, ContactB) = 1
  /\ Len(cfile.data) = 2 * 140

\* C26: a saveContacts that opened the file and met no write failure leaves a
\* file of exactly one record per contact of the table, whatever the file
\* held before; when a write fails after the stream accepted room bytes, the
\* file holds the records written completely before the failure and no byte
\* of a later record than the one that failed.
C26_ReplaceOnSave ==
  [][ \A room \in WriteRooms, removed \in BOOLEAN :
        saveContacts(TRUE, removed, room) =>
          LET whole == IF room < 0 THEN Len(contacts) ELSE room \div 140
              done == IF whole < Len(contacts) THEN whole ELSE Len(contacts)
          IN  /\ cfile'.exists
              /\ \A i \in 1..done :
                   StreamRecord(cfile'.data, i, 140) = contacts[i]
              /\ done = Len(contacts) => Len(cfile'.data) = 140 * done
              /\ done < Len(contacts) =>
                   /\ Len(cfile'.data) >= 140 * done
                   /\ Len(cfile'.data) < 140 * (done + 1) ]_vars

\* C26 happens: a save of two contacts failed after the first record and 60
\* bytes of the second.
C26_Witness ==
  /\ last.cmd = "saveContacts"
  /\ last.result = "write_failed"
  /\ Len(contacts) = 2
  /\ Len(cfile.data) = 200

\* C27: after begin(), when the preferences file is missing, cannot be
\* opened, or holds less than a whole record, the preferences in memory are
\* the constructor's defaults in every field.
C27_DefaultsOnReadError ==
  last.cmd = "begin"
    /\ ( ~disk.exists \/ ~fs_up
         \/ "selected_channel_idx" \notin DOMAIN disk.data )
    => prefs = DefaultPrefs

\* The record begin() would hold after a reboot now: the constructor's
\* defaults overlaid with the file.
LoadedAfterReboot(file) ==
  IF file.exists THEN ReadPrefs(DefaultPrefs, file.data) ELSE DefaultPrefs

\* C28: with a filesystem whose opens and writes succeed, when a command has
\* changed any field of the preferences the file holds, as the handler
\* returns, a record equal to the preferences in memory; and at every tick
\* boundary a reboot would load preferences equal to those in memory.
C28_PrefsPersistedSynchronously ==
  [][ (fs_up /\ running') =>
        /\ (running /\ prefs' # prefs) =>
             disk' = [ exists |-> TRUE, data |-> prefs' ]
        /\ LoadedAfterReboot(disk') = prefs' ]_vars

\* `set tx 300` was stored as 44, the node rebooted and begin() loaded 44 again.
C28_Witness ==
  /\ running /\ fs_up
  /\ last.cmd = "begin"
  /\ ncmds = 2
  /\ prefs.tx_power_dbm = 44
  /\ disk.data = prefs

\* The names of the channels that have a runtime entry, the built-in one
\* (index 0) apart.
RuntimeNames ==
  { active_channels[i].name :
      i \in { j \in 1..(MAX_GROUP_CHANNELS - 1) :
                active_channels[j] # NullChannel } }

\* The names `get ch` listed after the Public line.
ListedNames ==
  { last.listing[k].name : k \in 2..Len(last.listing) }

\* C29: the `get ch` listing holds the built-in channel and exactly the
\* channels that have a runtime entry; an active slot without one (its key
\* could not be derived) is not listed.
C29_ListingShowsRuntimeEntries ==
  last.cmd = "get ch" =>
    /\ last.listing[1].name = StrPublic
    /\ ListedNames = RuntimeNames

\* The same letter in the other case; any other character as it is.
SwapCase(c) ==
  IF c >= 65 /\ c <= 90 THEN c + 32
  ELSE IF c >= 97 /\ c <= 122 THEN c - 32
  ELSE c

\* Every string that differs from name only in the case of ASCII letters.
RECURSIVE CaseVariants(_)
CaseVariants(name) ==
  IF name = << >> THEN { << >> }
  ELSE { << c >> \o t : c \in { name[1], SwapCase(name[1]) },
                         t \in CaseVariants(Tail(name)) }

\* The names resolved: the built-in ones, the names the commands take, and
\* the name of every active slot.
ResolvedNames ==
  { StrPublicL, StrPubL, NameA, NameHashB, NameC }
  \cup { prefs.channels[i].name : i \in { j \in SlotIdx : prefs.channels[j].active } }

\* C30: in every state of the slots, findChannelByName gives the same result
\* for a name and for every variant of it that differs only in the case of
\* ASCII letters.
C30_ResolveIgnoresCase ==
  \A name \in ResolvedNames :
    \A variant \in CaseVariants(name) :
      findChannelByName(prefs, variant) = findChannelByName(prefs, name)

\* `chsel a` has selected the channel stored as "A".
C30_Witness ==
  /\ last.cmd = "chsel" /\ last.result = "selected"
  /\ prefs.selected_channel_idx >= 1
  /\ prefs.selected_channel_idx = findChannelByName(prefs, NameA)
  /\ \E i \in SlotIdx :
       prefs.channels[i].active /\ prefs.channels[i].name = NameAUp

\* C31: port 0 of the console is enabled in every reachable state, whatever
\* serial flags were saved and whatever `serial enable` / `serial disable`
\* commands were given.
C31_PrimarySinkEnabled == ports[0]

\* begin() has run on a file whose flag for port 0 is FALSE, and
\* `serial disable 0` was then refused.
C31_Witness ==
  /\ running
  /\ disk.exists /\ ~disk.data.serial_enabled[0]
  /\ last.cmd = "serial disable" /\ last.result = "error"
  /\ ports[0]

\* C32: write(c) appends c exactly once to port 0, exactly once to every
\* enabled port 1..2 that has free space, and nothing to a disabled port or
\* to an enabled one without free space; it returns 1.
C32_WriteReachesEnabledSinks ==
  [][ \A c \in { 65, 66 }, free \in [ 1..2 -> BOOLEAN ] :
        Write(c, free) =>
          /\ sinks'[0] = Append(sinks[0], c)
          /\ \A i \in 1..2 :
               sinks'[i] = IF ports[i] /\ free[i] THEN Append(sinks[i], c)
                           ELSE sinks[i]
          /\ last'.result = "1" ]_vars

\* A byte went to port 0 and port 1 and was dropped for port 2, which is
\* enabled too.
C32_Witness ==
  /\ last.cmd = "write"
  /\ ports[1] /\ ports[2]
  /\ Len(sinks[0]) = 1 /\ Len(sinks[1]) = 1 /\ Len(sinks[2]) = 0

\* C33: under any sequence of `time` commands and "clock sync" messages the
\* clock never decreases; a request later than the current time sets it, and
\* one that is not later leaves it unchanged and reports an error.
C33_ClockNeverGoesBack ==
  [][ /\ ~ Gt32(clock, clock')
      /\ last'.cmd \in { "time", "clock sync" } =>
           IF Gt32(last'.requested, clock)
           THEN clock' = last'.requested /\ last'.result = "ok"
           ELSE clock' = clock /\ last'.result = "error" ]_vars

\* With the clock at 70000, a clock sync with sender time 0xFFFFFFFF (a
\* request for 0) was refused.
C33_Witness ==
  /\ clock = << 1, 4464 >>
  /\ last.cmd = "clock sync" /\ last.result = "error"
  /\ last.requested = Zero32

\* C34: when `chsel <name>` has just selected a user channel and the `ch
\* <text>` that follows is sent, the datagram carries the key derived from the
\* slot named <name> and the destination reported is that slot's name.
C34_ChUsesChannelSelectedByName ==
  [][ \A pkt_ok \in BOOLEAN :
        ( /\ CmdCh(pkt_ok)
          /\ last.cmd = "chsel" /\ last.result = "selected"
          /\ prefs.selected_channel_idx >= 1
          /\ last'.result = "sent" )
        => \E i \in SlotIdx :
             /\ prefs.channels[i].active
             /\ findChannelByName(prefs, prefs.channels[i].name)
                  = prefs.selected_channel_idx
             /\ last'.requested = << SlotKeyBytes(prefs.channels[i]) >>
             /\ last'.shown = prefs.channels[i].name ]_vars

\* A successful `mute ch` / `unmute ch` of the user channel name has set to
\* value the mute flag of the active slot of that name and the live flag of
\* that slot's runtime entry, and no other flag.
MuteTouchesNamedChannel(name, value) ==
  \E i \in SlotIdx :
    /\ prefs.channels[i].active
    /\ StrCaseEq(prefs.channels[i].name, name)
    /\ prefs'.channels = [ prefs.channels EXCEPT ![i].muted = value ]
    /\ \E j \in RuntimeIndexOf(i) :
         channel_muted' = [ channel_muted EXCEPT ![j] = value ]

\* C35: `mute ch <name>` and `unmute ch <name>` for a user channel set the
\* persisted mute flag of exactly the slot named <name> and the live flag of
\* its runtime entry, and change no other slot's or entry's flag.
C35_MuteTouchesOnlyNamedChannel ==
  [][ \A name \in { NameA, NameC } :
        /\ ( CmdMuteCh(name) /\ last'.result = "ok" )
             => MuteTouchesNamedChannel(name, TRUE)
        /\ ( CmdUnmuteCh(name) /\ last'.result = "ok" )
             => MuteTouchesNamedChannel(name, FALSE) ]_vars

\* C36: `ch <text>` writes no byte past the end of temp, for every text the
\* command buffer can hold and every node name.
C36_ChStaysInsideBuffer ==
  last.cmd = "ch" => last.wrote <= TempSize

\* C37: an ACK is accepted only while a message sent with that ACK value is
\* unacknowledged, and the contact processAck returns is the one that message
\* was sent to, whatever `to` commands came in between.
C37_AckReturnsRecipientOfMessage ==
  [][ \A data \in 0..2 :
        ( AckArrives(data) /\ last'.result = "accepted" )
        => \E m \in sent_to : m.crc = data /\ last'.shown = m.to ]_vars

\* The /contacts file holds one record per contact of the table, in order.
FileHoldsTable(file, store) ==
  /\ file.exists
  /\ Len(file.data) = CONTACT_RECORD_SIZE * Len(store)
  /\ \A i \in 1..Len(store) :
       StreamRecord(file.data, i, CONTACT_RECORD_SIZE) = store[i]

\* C38: after a discovered or repeated advert, a path update and `reset
\* path` with a recipient selected, when the file opens, /contacts holds the
\* contact table as it is now, whether adverts are muted or not; muting only
\* suppresses the notice.
C38_ContactEventsAreSaved ==
  [][ /\ \A c \in { ContactA, ContactB } :
           Discovered(c, TRUE) =>
             /\ FileHoldsTable(cfile', contacts')
             /\ (last'.result = "silent") = prefs.mute_adverts
      /\ \A i \in 1..MAX_CONTACTS :
           PathUpdated(i, 2, TRUE) => FileHoldsTable(cfile', contacts')
      /\ ( CmdResetPath(TRUE) /\ curr_recipient # 0 )
           => FileHoldsTable(cfile', contacts') ]_vars

\* With adverts muted, a first advert was saved without a notice.
C38_Witness ==
  /\ prefs.mute_adverts
  /\ last.cmd = "advert" /\ last.result = "silent"
  /\ Len(contacts) = 2
  /\ FileHoldsTable(cfile, contacts)

====
